---- MODULE Spec2Model ----
(***************************************************************************)
(* TonService (src/src/services/ton.ts): wallet initialisation, the send   *)
(* operations, the confirmation poller and address validation, run by      *)
(* concurrent callers against one wallet contract on the chain.            *)
(*                                                                         *)
(* JavaScript runs one task at a time and switches tasks only at an await, *)
(* so every action below is the code between two awaits of one call.  The  *)
(* chain RPC client is the environment: a call may be answered or rejected *)
(* (network error), and the wallet contract accepts an external message    *)
(* only when it carries the contract's current sequence number.            *)
(***************************************************************************)
EXTENDS Integers, Sequences, FiniteSets, TLC

\* ---------------------------------------------------------------- bounds
NumTasks == 2          \* concurrent callers of one TonService
MaxCalls == 2          \* send and call operations started in one behaviour
MaxInits == 1          \* initialize() calls started in one behaviour
MaxAttempts == 2       \* maxAttempts of waitForTransaction (default 30)
MaxIncoming == 1       \* transactions other parties send to the wallet
MaxWordsInit == 25     \* longest mnemonic of the initialize specification
MaxAddrLen == 5        \* longest address string given to validateAddress
MaxOpcodeCalls == 2    \* methodToOpcode calls made in one behaviour
MaxClock == 2          \* values of Date.now()
MaxSnakeCells == 2     \* longest chain of cells given to parseSnakeData
MaxCellBytes == 2      \* most data bytes in one of those cells
MaxGasCells == 3       \* most cells of a message given to estimateGas
MaxRequests == 2       \* requests the Mini App server receives in one behaviour
MaxChat == 3           \* chat requests the demo server handles in one behaviour
MaxTime == 4           \* last value of the clock of the rate limiter
MaxBuilds == 2         \* bodies one service instance builds in one behaviour
MaxConvTime == 2       \* last value of the clock of the conversation store
conversationTimeout == 1 \* ConversationManager.conversationTimeout, in clock ticks
MaxQuota == 2          \* largest rateLimit.maxRequests

Tasks == 1..NumTasks
None == "none"
NoHash == 0

\* ------------------------------------------------------- error messages
ErrMnemonicRequired == "Wallet mnemonic is required for TON service initialization"
ErrInvalidMnemonic == "Invalid mnemonic: expected 12, 15, 18, 21, or 24 words"
ErrDerivation == "mnemonicToPrivateKey failed"
ErrWalletNotInit == "Wallet not initialized"
ErrWalletNotInitCall == "Wallet not initialized for state-changing calls"
ErrNotConfirmed == "Transaction not confirmed after maxAttempts attempts"
ErrRpc == "rpc request failed"
ErrParse == "parse failed"

\* toContain('Wallet not initialized') of the tests
ContainsWalletNotInit(e) == e \in {ErrWalletNotInit, ErrWalletNotInitCall}

\* ------------------------------------------------------------ mnemonics
\* A mnemonic string is a sequence of tokens: "w" is one word (a maximal
\* run of non-space characters), " " is one space character.
validWordCounts == {12, 15, 18, 21, 24}

RECURSIVE Words(_)
Words(n) == IF n = 0 THEN << >>
            ELSE IF n = 1 THEN <<"w">>
            ELSE Words(n - 1) \o <<" ", "w">>

\* n words joined by single spaces, with `lead` spaces before, `trail`
\* spaces after, and `dbl` extra spaces after the first word
Pad(k) == [i \in 1..k |-> " "]
Mnemonic(n, lead, dbl, trail) ==
    LET ws == Words(n)
        body == IF n >= 2 /\ dbl > 0
                THEN <<"w">> \o Pad(dbl) \o SubSeq(ws, 2, Len(ws))
                ELSE ws
    IN Pad(lead) \o body \o Pad(trail)

\* String.prototype.split(' '): the pieces between the space characters
RECURSIVE SplitFrom(_, _, _, _)
SplitFrom(s, i, cur, acc) ==
    IF i > Len(s) THEN Append(acc, cur)
    ELSE IF s[i] = " " THEN SplitFrom(s, i + 1, << >>, Append(acc, cur))
    ELSE SplitFrom(s, i + 1, Append(cur, s[i]), acc)
split(s) == SplitFrom(s, 1, << >>, << >>)

\* the number of words of a mnemonic string
WordCount(s) == Cardinality({i \in 1..Len(s) : s[i] = "w"})

\* config.walletMnemonic: undefined, or a string
NoMnemonic == [defined |-> FALSE, text |-> << >>]
Configured(s) == [defined |-> TRUE, text |-> s]

\* !this.config.walletMnemonic : undefined and '' are falsy
MnemonicMissing(m) == ~m.defined \/ m.text = << >>

\* ------------------------------------------------------------- requests
SendKinds == {"sendTransaction", "deployContract", "deploySmartContract",
              "transferJettons", "callContractMethod"}
\* operations whose catch block returns {success: false, error}
ReturnsFailure == {"deploySmartContract", "transferJettons", "callContractMethod"}

\* amount: absent, '' (falsy) or a decimal string; params: absent, [] or
\* a non-empty list.  addrOk: the address argument parses.  buildOk: the
\* rest of the message (amount, BOC, method-call body) can be built.
Req(k, a, b, am, ps) == [kind |-> k, addrOk |-> a, buildOk |-> b, amount |-> am, params |-> ps]
SendRequests ==
    {Req(k, TRUE, TRUE, "0.1", "absent") : k \in SendKinds \ {"callContractMethod"}}
    \cup {Req(k, TRUE, FALSE, "0.1", "absent") : k \in {"sendTransaction", "transferJettons"}}
\* (flags that the code never evaluates on a path are left TRUE)
CallRequests ==
    {Req("callContractMethod", TRUE, TRUE, am, ps) :
        am \in {"absent", ""}, ps \in {"absent", "empty"}}
    \cup {Req("callContractMethod", TRUE, b, "0.1", "absent") : b \in BOOLEAN}
    \cup {Req("callContractMethod", TRUE, TRUE, am, "some") : am \in {"absent", "", "0.1"}}
    \cup {Req("callContractMethod", FALSE, TRUE, am, "absent") : am \in {"absent", "0.1"}}
InitRequest == [kind |-> "initialize", addrOk |-> TRUE, buildOk |-> TRUE,
                amount |-> "absent", params |-> "absent"]
NoRequest == [kind |-> None, addrOk |-> TRUE, buildOk |-> TRUE,
              amount |-> "absent", params |-> "absent"]

\* (slip: the `params.length === 0` test left out)
IsReadOnly_noLength(r) == r.amount \in {"absent", ""} /\ r.params = "absent"
\* !params.amount && (!params.params || params.params.length === 0)
IsReadOnly(r) == r.amount \in {"absent", ""} /\ r.params \in {"absent", "empty"}

\* -------------------------------------------------------------- results
Thrown(e) == [out |-> "throw", success |-> FALSE, err |-> e, hash |-> NoHash, val |-> None]
Failure(e) == [out |-> "return", success |-> FALSE, err |-> e, hash |-> NoHash, val |-> None]
Success(h) == [out |-> "return", success |-> TRUE, err |-> "", hash |-> h, val |-> None]
StackResult == [out |-> "return", success |-> TRUE, err |-> "", hash |-> NoHash, val |-> "stack"]
NoResult == [out |-> None, success |-> FALSE, err |-> "", hash |-> NoHash, val |-> None]

NoRpc == [getSeqno |-> 0, sendTransfer |-> 0, runMethod |-> 0, getTransactions |-> 0]
NoWait == [started |-> FALSE, outcome |-> None, polls |-> 0, advanced |-> FALSE,
           rpcFailed |-> FALSE, watermark |-> -1]
NoMsg == [id |-> 0, seqno |-> -1]

VARIABLES
    walletMnemonic,  \* config.walletMnemonic
    wallet,          \* this.wallet !== null
    keyPair,         \* this.keyPair !== null
    walletAddress,   \* this.walletAddress
    derivations,     \* number of mnemonicToPrivateKey invocations
    chainSeqno,      \* the wallet contract's sequence number on the chain
    chainTxs,        \* the wallet's transactions, most recent first (hashes)
    mempool,         \* external messages accepted by the RPC, not yet processed
    incoming,        \* number of transactions received from other parties
    calls,           \* number of send and call operations started
    inits,           \* number of initialize() calls started
    nextMsg,         \* identity of the next signed message
    pc,              \* per task: position in the running operation
    req,             \* per task: the arguments of the running operation
    readyAtCall,     \* per task: the wallet was initialized when the operation started
    seqno,           \* per task: the local `seqno`
    attempt,         \* per task: the loop variable of waitForTransaction
    msg,             \* per task: the message signed by the running operation
    submitted,       \* per task: "no", "yes" (sendTransfer resolved) or "failed" (it rejected)
    rpc,             \* per task: RPC requests issued by the running operation
    wait,            \* per task: the run of waitForTransaction
    result,          \* per task: what the finished operation gave its caller
    vaInput,         \* validateAddress: the argument
    vaResult,        \* validateAddress: what the promise settled with
    crc32Table,      \* TonService.crc32Table (static)
    opLog,           \* methodToOpcode: the calls made, with what each returned
    jtArgs,          \* transferJettons: the arguments
    jtNow,           \* transferJettons: Date.now() at the construction of the body
    jtBody,          \* transferJettons: the transfer body built
    mdContent,       \* the content cell of a jetton master
    mdParsed,        \* parseJettonMetadata: what it returned
    mdInfo,          \* getJettonInfo: what it returned
    snCell,          \* parseSnakeData: the argument
    snResult,        \* parseSnakeData: what it returned
    gasMessage,      \* estimateGas: the two messages whose estimates are compared
    gasEstimate,     \* estimateGas: what it returned without a message and for each message
    appReq,          \* MiniAppServer: the request being handled (the last one when idle)
    appStage,        \* MiniAppServer: where the request is: idle, cors, auth, route
    appStatus,       \* MiniAppServer: status of the response to appReq, 0 before it
    appSent,         \* MiniAppServer: requests whose sendTransaction call sent a transaction
    appCount,        \* MiniAppServer: requests received
    walletState,     \* demo server: walletState (balance, staked, tokens.USDT)
    pendingAction,   \* demo server: pendingAction
    chatLast,        \* demo server: the last chat request and what went before it
    chatCount,       \* demo server: chat requests handled
    botConfig,       \* TelegramBot: config.allowedUsers, config.adminUsers, rateLimit.maxRequests
    botNow,          \* Date.now()
    limits,          \* RateLimiter.limits
    limWindow,       \* per user: the window as an observer of the checkLimit calls counts it
    limLast,         \* the last call of the rate limiter and what it found
    botUpdate,       \* TelegramBot: the update being handled
    botStage,        \* TelegramBot: where the update is: idle, middleware, handlers
    botLast,         \* TelegramBot: how the last update ended
    botHandled,      \* TelegramBot: updates for which a handler ran, with the handler
    redisClient,     \* CacheManager: this.redisClient !== null
    redisStore,      \* CacheManager: the entries Redis holds
    nodeCache,       \* CacheManager: the entries of the in-memory NodeCache
    cacheDeleted,    \* CacheManager: keys deleted or cleared and not set since
    cacheLast,       \* CacheManager: the last operation and what it returned
    mcNow,           \* MethodCallEncoder: Date.now()
    mcLog,           \* MethodCallEncoder: kind and query id of the bodies built, in order
    mcCall,          \* MethodCallEncoder: the last state-changing callContractMethod
    convRedis,       \* ConversationManager: this.redis !== null
    redisConv,       \* ConversationManager: the conversation keys Redis holds
    conversations,   \* ConversationManager: the in-memory map
    convNow,         \* ConversationManager: Date.now()
    convSaved,       \* ConversationManager: what was last saved or cleared, per user
    convLast         \* ConversationManager: the last operation and what it returned

svcVars == <<walletMnemonic, wallet, keyPair, walletAddress, derivations>>
chainVars == <<chainSeqno, chainTxs, mempool, incoming>>
taskVars == <<calls, inits, nextMsg, pc, req, readyAtCall, seqno, attempt, msg, submitted,
              rpc, wait, result>>
vaVars == <<vaInput, vaResult>>
opVars == <<crc32Table, opLog>>
jtVars == <<jtArgs, jtNow, jtBody>>
mdVars == <<mdContent, mdParsed, mdInfo>>
snVars == <<snCell, snResult>>
gasVars == <<gasMessage, gasEstimate>>
appVars == <<appReq, appStage, appStatus, appSent, appCount>>
chatVars == <<walletState, pendingAction, chatLast, chatCount>>
botVars == <<botConfig, botNow, limits, limWindow, limLast, botUpdate, botStage, botLast, botHandled>>
cacheVars == <<redisClient, redisStore, nodeCache, cacheDeleted, cacheLast>>
mcVars == <<mcNow, mcLog, mcCall>>
convVars == <<convRedis, redisConv, conversations, convNow, convSaved, convLast>>
restVars == <<opVars, jtVars, mdVars, snVars, gasVars, appVars, chatVars, botVars, cacheVars, mcVars, convVars>>
notOpVars == <<jtVars, mdVars, snVars, gasVars, appVars, chatVars, botVars, cacheVars, mcVars, convVars>>
notJtVars == <<opVars, mdVars, snVars, gasVars, appVars, chatVars, botVars, cacheVars, mcVars, convVars>>
notMdVars == <<opVars, jtVars, snVars, gasVars, appVars, chatVars, botVars, cacheVars, mcVars, convVars>>
notSnVars == <<opVars, jtVars, mdVars, gasVars, appVars, chatVars, botVars, cacheVars, mcVars, convVars>>
notGasVars == <<opVars, jtVars, mdVars, snVars, appVars, chatVars, botVars, cacheVars, mcVars, convVars>>
notAppVars == <<opVars, jtVars, mdVars, snVars, gasVars, chatVars, botVars, cacheVars, mcVars, convVars>>
notChatVars == <<opVars, jtVars, mdVars, snVars, gasVars, appVars, botVars, cacheVars, mcVars, convVars>>
notBotVars == <<opVars, jtVars, mdVars, snVars, gasVars, appVars, chatVars, cacheVars, mcVars, convVars>>
notCacheVars == <<opVars, jtVars, mdVars, snVars, gasVars, appVars, chatVars, botVars, mcVars, convVars>>
notMcVars == <<opVars, jtVars, mdVars, snVars, gasVars, appVars, chatVars, botVars, cacheVars, convVars>>
notConvVars == <<opVars, jtVars, mdVars, snVars, gasVars, appVars, chatVars, botVars, cacheVars, mcVars>>
vars == <<svcVars, chainVars, taskVars, vaVars, restVars>>

\* ------------------------------------------------- decisions of the code
\* (slip: the wallet guard left out)
walletReady_missing(w, k) == TRUE
\* the guard `if (!this.wallet || !this.keyPair)` does not fire
walletReady(w, k) == w /\ k

\* sendTransaction, deployContract, deploySmartContract, transferJettons:
\* the code before the first await
sendEntry(r, w, k) == IF ~walletReady(w, k) THEN "notInit" ELSE "getSeqno"

\* callContractMethod: the code before the first await
callContractMethodEntry(r, w, k) ==
    IF ~r.addrOk THEN "parseError"
    ELSE IF IsReadOnly(r) THEN "runMethod"
    ELSE IF ~walletReady(w, k) THEN "notInit"
    ELSE "getSeqno"

Entry(r, w, k) == IF r.kind = "callContractMethod"
                  THEN callContractMethodEntry(r, w, k)
                  ELSE sendEntry(r, w, k)

\* (slip: the catch block reports every error as 'Unknown error')
catchResult_unknown(kind, e) ==
    IF kind \in ReturnsFailure THEN Failure("Unknown error") ELSE Thrown("Unknown error")
\* what the catch block of an operation gives the caller for error e
catchResult(kind, e) == IF kind \in ReturnsFailure THEN Failure(e) ELSE Thrown(e)

\* the wallet guard: thrown before the try block, except in
\* callContractMethod where it is thrown inside it
notInitResult(kind) == IF kind = "callContractMethod"
                       THEN catchResult(kind, ErrWalletNotInitCall)
                       ELSE Thrown(ErrWalletNotInit)

\* the message can be built: Address.parse, toNano, Cell.fromBoc,
\* buildMethodCallBody between getSeqno and sendTransfer
buildSucceeds(r) == IF r.kind = "callContractMethod" THEN r.buildOk
                    ELSE r.addrOk /\ r.buildOk

\* (slip: attempt <= maxAttempts)
loopContinues_offByOne(att, maxAttempts) == att <= maxAttempts
\* waitForTransaction: for (let attempt = 0; attempt < maxAttempts; attempt++)
loopContinues(att, maxAttempts) == att < maxAttempts
\* waitForTransaction: if (currentSeqno > seqno)
seqnoAdvanced(currentSeqno, s) == currentSeqno > s
\* client.getTransactions(address, {limit: 5})
Limit(txs, n) == SubSeq(txs, 1, IF Len(txs) < n THEN Len(txs) ELSE n)
\* (slip: transactions[0]?.hash() returned without the length test)
hasEntry_unchecked(transactions) == TRUE
\* waitForTransaction: if (transactions.length > 0)
hasEntry(transactions) == Len(transactions) > 0
\* waitForTransaction: transactions[0].hash(); undefined when there is no entry
hashOf(transactions) == IF Len(transactions) > 0 THEN transactions[1] ELSE NoHash

\* ----------------------------------------------------------- operations
\* an operation of task t ends and gives res to its caller
Finish(t, res) ==
    /\ pc' = [pc EXCEPT ![t] = "done"]
    /\ result' = [result EXCEPT ![t] = res]

\* a caller starts a send operation or callContractMethod
Call(t, r) ==
    /\ pc[t] \in {"idle", "done"}
    /\ calls < MaxCalls
    /\ calls' = calls + 1
    /\ req' = [req EXCEPT ![t] = r]
    /\ readyAtCall' = [readyAtCall EXCEPT ![t] = wallet /\ keyPair]
    /\ seqno' = [seqno EXCEPT ![t] = -1]
    /\ attempt' = [attempt EXCEPT ![t] = 0]
    /\ msg' = [msg EXCEPT ![t] = NoMsg]
    /\ submitted' = [submitted EXCEPT ![t] = "no"]
    /\ wait' = [wait EXCEPT ![t] = NoWait]
    /\ LET e == Entry(r, wallet, keyPair) IN
       CASE e = "parseError" ->
              /\ Finish(t, catchResult(r.kind, ErrParse))
              /\ rpc' = [rpc EXCEPT ![t] = NoRpc]
         [] e = "notInit" ->
              /\ Finish(t, notInitResult(r.kind))
              /\ rpc' = [rpc EXCEPT ![t] = NoRpc]
         [] e = "runMethod" ->
              /\ pc' = [pc EXCEPT ![t] = "runMethod"]
              /\ result' = [result EXCEPT ![t] = NoResult]
              /\ rpc' = [rpc EXCEPT ![t] = [NoRpc EXCEPT !.runMethod = 1]]
         [] OTHER ->
              /\ pc' = [pc EXCEPT ![t] = "getSeqno"]
              /\ result' = [result EXCEPT ![t] = NoResult]
              /\ rpc' = [rpc EXCEPT ![t] = [NoRpc EXCEPT !.getSeqno = 1]]
    /\ UNCHANGED <<svcVars, chainVars, inits, nextMsg, vaVars, restVars>>

\* client.runMethod settles: the read-only path of callContractMethod
RunMethodReply(t, ok) ==
    /\ pc[t] = "runMethod"
    /\ Finish(t, IF ok THEN StackResult ELSE catchResult(req[t].kind, ErrRpc))
    /\ UNCHANGED <<svcVars, chainVars, calls, inits, nextMsg, req, readyAtCall, seqno,
                   attempt, msg, submitted, rpc, wait, vaVars, restVars>>

\* contract.getSeqno settles; the message is built and signed with the
\* sequence number read, and sendTransfer is issued
GetSeqnoReply(t, ok) ==
    /\ pc[t] = "getSeqno"
    /\ IF ~ok THEN
          /\ Finish(t, catchResult(req[t].kind, ErrRpc))
          /\ UNCHANGED <<seqno, msg, nextMsg, rpc>>
       ELSE IF ~buildSucceeds(req[t]) THEN
          /\ Finish(t, catchResult(req[t].kind, ErrParse))
          /\ seqno' = [seqno EXCEPT ![t] = chainSeqno]
          /\ UNCHANGED <<msg, nextMsg, rpc>>
       ELSE
          /\ seqno' = [seqno EXCEPT ![t] = chainSeqno]
          /\ msg' = [msg EXCEPT ![t] = [id |-> nextMsg, seqno |-> chainSeqno]]
          /\ nextMsg' = nextMsg + 1
          /\ rpc' = [rpc EXCEPT ![t].sendTransfer = @ + 1]
          /\ pc' = [pc EXCEPT ![t] = "sendTransfer"]
          /\ UNCHANGED result
    /\ UNCHANGED <<svcVars, chainVars, calls, inits, req, readyAtCall, attempt, submitted,
                   wait, vaVars, restVars>>

\* waitForTransaction ends with a hash or an error
WaitEnds(t, w, h, e) ==
    /\ wait' = [wait EXCEPT ![t] = w]
    /\ Finish(t, IF e = "" THEN Success(h) ELSE catchResult(req[t].kind, e))

\* the end of one loop iteration of waitForTransaction: attempt++, then
\* the loop condition; the timeout error after the loop
\* (r: the RPC requests of the operation so far)
\* (slip: a poll without result submits the message again)
NextAttempt_resubmits(t, w, r) ==
    /\ attempt' = [attempt EXCEPT ![t] = @ + 1]
    /\ pc' = [pc EXCEPT ![t] = "sendTransfer"]
    /\ wait' = [wait EXCEPT ![t] = w]
    /\ rpc' = [rpc EXCEPT ![t] = [r EXCEPT !.sendTransfer = @ + 1]]
    /\ UNCHANGED result
NextAttempt(t, w, r) ==
    /\ rpc' = [rpc EXCEPT ![t] = r]
    /\ IF loopContinues(attempt[t] + 1, MaxAttempts)
       THEN /\ attempt' = [attempt EXCEPT ![t] = @ + 1]
            /\ pc' = [pc EXCEPT ![t] = "sleep"]
            /\ wait' = [wait EXCEPT ![t] = w]
            /\ UNCHANGED result
       ELSE /\ attempt' = [attempt EXCEPT ![t] = @ + 1]
            /\ WaitEnds(t, [w EXCEPT !.outcome = "timeout"], NoHash, ErrNotConfirmed)

\* (slip: the poller is given the sequence number the message will leave behind)
pollerWatermark_next(localSeqno) == localSeqno + 1
\* the argument of this.waitForTransaction(seqno): the local `seqno`
pollerWatermark(localSeqno) == localSeqno

\* contract.sendTransfer settles; on success waitForTransaction(seqno) starts
SendTransferReply(t, ok) ==
    /\ pc[t] = "sendTransfer"
    /\ IF ~ok THEN
          /\ submitted' = [submitted EXCEPT ![t] = "failed"]
          /\ Finish(t, catchResult(req[t].kind, ErrRpc))
          /\ UNCHANGED <<mempool, wait, attempt>>
       ELSE
          /\ submitted' = [submitted EXCEPT ![t] = "yes"]
          /\ mempool' = mempool \cup {msg[t]}
          /\ LET w == [NoWait EXCEPT !.started = TRUE, !.watermark = pollerWatermark(seqno[t])] IN
             IF ~wallet THEN
                /\ WaitEnds(t, [w EXCEPT !.outcome = "error"], NoHash, ErrWalletNotInit)
                /\ UNCHANGED attempt
             ELSE IF loopContinues(0, MaxAttempts) THEN
                /\ wait' = [wait EXCEPT ![t] = w]
                /\ pc' = [pc EXCEPT ![t] = "sleep"]
                /\ UNCHANGED <<result, attempt>>
             ELSE
                /\ WaitEnds(t, [w EXCEPT !.outcome = "timeout"], NoHash, ErrNotConfirmed)
                /\ UNCHANGED attempt
    /\ UNCHANGED <<svcVars, chainSeqno, chainTxs, incoming, calls, inits, nextMsg, req,
                   readyAtCall, seqno, msg, rpc, vaVars, restVars>>

\* waitForTransaction: the sleep ends and contract.getSeqno settles
PollSeqno(t, ok) ==
    /\ pc[t] = "sleep"
    /\ LET w == [wait[t] EXCEPT !.polls = @ + 1] IN
       IF ~ok THEN
          /\ WaitEnds(t, [w EXCEPT !.outcome = "error", !.rpcFailed = TRUE], NoHash, ErrRpc)
          /\ rpc' = [rpc EXCEPT ![t].getSeqno = @ + 1]
          /\ UNCHANGED attempt
       ELSE IF seqnoAdvanced(chainSeqno, wait[t].watermark) THEN
          /\ wait' = [wait EXCEPT ![t] = [w EXCEPT !.advanced = TRUE]]
          /\ pc' = [pc EXCEPT ![t] = "getTransactions"]
          /\ rpc' = [rpc EXCEPT ![t].getSeqno = @ + 1, ![t].getTransactions = @ + 1]
          /\ UNCHANGED <<result, attempt>>
       ELSE
          NextAttempt(t, w, [rpc[t] EXCEPT !.getSeqno = @ + 1])
    /\ UNCHANGED <<svcVars, chainVars, calls, inits, nextMsg, req, readyAtCall, seqno, msg,
                   submitted, vaVars, restVars>>

\* waitForTransaction: client.getTransactions settles with the list the
\* RPC node has indexed (the wallet's history, or nothing yet)
PollTransactions(t, ok, indexed) ==
    /\ pc[t] = "getTransactions"
    /\ LET transactions == IF indexed THEN Limit(chainTxs, 5) ELSE << >> IN
       IF ~ok THEN
          /\ WaitEnds(t, [wait[t] EXCEPT !.outcome = "error", !.rpcFailed = TRUE], NoHash, ErrRpc)
          /\ UNCHANGED <<attempt, rpc>>
       ELSE IF hasEntry(transactions) THEN
          /\ WaitEnds(t, [wait[t] EXCEPT !.outcome = "hash"], hashOf(transactions), "")
          /\ UNCHANGED <<attempt, rpc>>
       ELSE
          NextAttempt(t, wait[t], rpc[t])
    /\ UNCHANGED <<svcVars, chainVars, calls, inits, nextMsg, req, readyAtCall, seqno, msg,
                   submitted, vaVars, restVars>>

\* ----------------------------------------------------------- initialize
\* initialize: the code before `await mnemonicToPrivateKey(mnemonic)`
initializeCheck(m) ==
    IF MnemonicMissing(m) THEN "required"
    ELSE IF Len(split(m.text)) \notin validWordCounts THEN "invalid"
    ELSE "derive"

\* a caller starts initialize()
initialize(t) ==
    /\ pc[t] \in {"idle", "done"}
    /\ inits < MaxInits
    /\ inits' = inits + 1
    /\ req' = [req EXCEPT ![t] = InitRequest]
    /\ readyAtCall' = [readyAtCall EXCEPT ![t] = wallet /\ keyPair]
    /\ seqno' = [seqno EXCEPT ![t] = -1]
    /\ attempt' = [attempt EXCEPT ![t] = 0]
    /\ msg' = [msg EXCEPT ![t] = NoMsg]
    /\ submitted' = [submitted EXCEPT ![t] = "no"]
    /\ wait' = [wait EXCEPT ![t] = NoWait]
    /\ rpc' = [rpc EXCEPT ![t] = NoRpc]
    /\ LET c == initializeCheck(walletMnemonic) IN
       CASE c = "required" ->
              /\ Finish(t, Thrown(ErrMnemonicRequired))
              /\ UNCHANGED derivations
         [] c = "invalid" ->
              /\ Finish(t, Thrown(ErrInvalidMnemonic))
              /\ UNCHANGED derivations
         [] OTHER ->
              /\ pc' = [pc EXCEPT ![t] = "derive"]
              /\ result' = [result EXCEPT ![t] = NoResult]
              /\ derivations' = derivations + 1
    /\ UNCHANGED <<walletMnemonic, wallet, keyPair, walletAddress, chainVars,
                   calls, nextMsg, vaVars, restVars>>

\* (slip: the key pair is stored before the derivation has settled)
DeriveReply_keyStoredEarly(t, ok) ==
    /\ pc[t] = "derive"
    /\ keyPair' = TRUE
    /\ IF ok THEN
          /\ wallet' = TRUE
          /\ walletAddress' = "address"
          /\ Finish(t, Success(NoHash))
       ELSE
          /\ Finish(t, Thrown(ErrDerivation))
          /\ UNCHANGED <<wallet, walletAddress>>
    /\ UNCHANGED <<walletMnemonic, derivations, chainVars, calls, inits, nextMsg, req,
                   readyAtCall, seqno, attempt, msg, submitted, rpc, wait, vaVars, restVars>>
\* mnemonicToPrivateKey settles; the key pair, the wallet contract and its
\* address are stored
DeriveReply(t, ok) ==
    /\ pc[t] = "derive"
    /\ IF ok THEN
          /\ keyPair' = TRUE
          /\ wallet' = TRUE
          /\ walletAddress' = "address"
          /\ Finish(t, Success(NoHash))
       ELSE
          /\ Finish(t, Thrown(ErrDerivation))
          /\ UNCHANGED <<keyPair, wallet, walletAddress>>
    /\ UNCHANGED <<walletMnemonic, derivations, chainVars, calls, inits, nextMsg, req,
                   readyAtCall, seqno, attempt, msg, submitted, rpc, wait, vaVars, restVars>>

\* ------------------------------------------------------------ the chain
\* the wallet contract processes an external message carrying its current
\* sequence number: one transaction, sequence number + 1
ChainAccept(m) ==
    /\ m \in mempool
    /\ m.seqno = chainSeqno
    /\ chainSeqno' = chainSeqno + 1
    /\ chainTxs' = <<m.id>> \o chainTxs
    /\ mempool' = mempool \ {m}
    /\ UNCHANGED <<svcVars, incoming, taskVars, vaVars, restVars>>

\* another party sends to the wallet: one transaction, no sequence number
ExternalHash(k) == 100 + k
ChainIncoming ==
    /\ incoming < MaxIncoming
    /\ incoming' = incoming + 1
    /\ chainTxs' = <<ExternalHash(incoming + 1)>> \o chainTxs
    /\ UNCHANGED <<svcVars, chainSeqno, mempool, taskVars, vaVars, restVars>>

\* ------------------------------------------------------ validateAddress
\* An address string over a scaled alphabet: "A" and "B" are base64
\* characters (values 0 and 1), "!" is not one.  A friendly address has
\* FriendlyLen characters (48 in the library), the last one a checksum.
FriendlyLen == 4
AddrChars == {"A", "B", "!"}
Base64Chars == {"A", "B"}
NullAddress == [isNull |-> TRUE, text |-> << >>]
AddressString(s) == [isNull |-> FALSE, text |-> s]
CharValue(c) == IF c = "B" THEN 1 ELSE 0
RECURSIVE Checksum(_, _)
Checksum(s, n) == IF n = 0 THEN 0 ELSE (Checksum(s, n - 1) + CharValue(s[n])) % 2

\* Address.parse(source): "ok", or the exception it throws
AddressParse(a) ==
    IF a.isNull THEN "TypeError"
    ELSE IF Len(a.text) = FriendlyLen /\ \A i \in 1..Len(a.text) : a.text[i] \in Base64Chars
    THEN IF a.text[FriendlyLen] = (IF Checksum(a.text, FriendlyLen - 1) = 1 THEN "B" ELSE "A")
         THEN "ok" ELSE "Error"
    ELSE "Error"

\* (slip: only the parser's own Error is caught, a TypeError escapes)
validateAddress_typeErrorEscapes(a) ==
    IF AddressParse(a) = "TypeError"
    THEN [settled |-> "rejected", value |-> FALSE]
    ELSE [settled |-> "resolved", value |-> (AddressParse(a) = "ok")]
\* try { Address.parse(address); return true } catch { return false }
validateAddress(a) ==
    [settled |-> "resolved", value |-> (AddressParse(a) = "ok")]

NotValidated == [settled |-> None, value |-> FALSE]

ValidateAddress ==
    /\ vaResult = NotValidated
    /\ vaResult' = validateAddress(vaInput)
    /\ UNCHANGED <<svcVars, chainVars, taskVars, vaInput, restVars>>

\* ------------------------------------------- 32-bit numbers of JavaScript
\* A number as the bitwise operators of JavaScript see it: a 32-bit pattern
\* in two 16-bit halves; `neg` tells that the pattern stands for a negative
\* Int32 (pattern - 2^32), which is what ^ returns when bit 31 is set.
Word(h, l) == [kind |-> "number", neg |-> FALSE, hi |-> h, lo |-> l]
Undefined == [kind |-> "undefined", neg |-> FALSE, hi |-> 0, lo |-> 0]
\* x >>> 0, and the store into a Uint32Array
ToUint32(x) == [x EXCEPT !.neg = FALSE]
ToInt32(x) == [x EXCEPT !.neg = (x.hi >= 32768)]
RECURSIVE XorBits(_, _, _)
XorBits(a, b, n) ==
    IF n = 0 THEN 0
    ELSE ((a + b) % 2) + 2 * XorBits(a \div 2, b \div 2, n - 1)
\* x ^ y
Xor(x, y) == ToInt32(Word(XorBits(x.hi, y.hi, 16), XorBits(x.lo, y.lo, 16)))
\* x >>> n, for n < 16
Ushr(x, n) == Word(x.hi \div 2^n, (x.hi % 2^n) * 2^(16 - n) + x.lo \div 2^n)
\* x & (2^n - 1), for n <= 16
LowBits(x, n) == x.lo % 2^n

\* ------------------------------------------------- MethodCallEncoder
\* A string is the sequence of its UTF-16 code units (what charCodeAt reads).
lowerUnit(c) == IF c \in 65..90 \/ (c \in 192..222 /\ c # 215) THEN c + 32 ELSE c
RECURSIVE toLowerCase(_)
toLowerCase(str) ==
    IF str = << >> THEN << >>
    ELSE <<lowerUnit(Head(str))>> \o toLowerCase(Tail(str))

STANDARD_OPCODES == {
    <<<<116, 114, 97, 110, 115, 102, 101, 114>>, Word(3978, 32421)>>,
        \* 'transfer': 0xf8a7ea5
    <<<<116, 114, 97, 110, 115, 102, 101, 114, 95, 110, 111, 116, 105, 102, 105, 99,
        97, 116, 105, 111, 110>>, Word(29538, 53404)>>,
        \* 'transfer_notification': 0x7362d09c
    <<<<105, 110, 116, 101, 114, 110, 97, 108, 95, 116, 114, 97, 110, 115, 102, 101,
        114>>, Word(6029, 17689)>>,
        \* 'internal_transfer': 0x178d4519
    <<<<101, 120, 99, 101, 115, 115, 101, 115>>, Word(54578, 30427)>>,
        \* 'excesses': 0xd53276db
    <<<<98, 117, 114, 110>>, Word(22879, 1980)>>,
        \* 'burn': 0x595f07bc
    <<<<98, 117, 114, 110, 95, 110, 111, 116, 105, 102, 105, 99, 97, 116, 105, 111,
        110>>, Word(31709, 38878)>>,
        \* 'burn_notification': 0x7bdd97de
    <<<<116, 114, 97, 110, 115, 102, 101, 114, 95, 110, 102, 116>>, Word(24524, 15636)>>,
        \* 'transfer_nft': 0x5fcc3d14
    <<<<111, 119, 110, 101, 114, 115, 104, 105, 112, 95, 97, 115, 115, 105, 103, 110,
        101, 100>>, Word(1299, 36241)>>,
        \* 'ownership_assigned': 0x05138d91
    <<<<103, 101, 116, 95, 115, 116, 97, 116, 105, 99, 95, 100, 97, 116, 97>>,
        Word(12235, 9890)>>,
        \* 'get_static_data': 0x2fcb26a2
    <<<<114, 101, 112, 111, 114, 116, 95, 115, 116, 97, 116, 105, 99, 95, 100, 97,
        116, 97>>, Word(35703, 5941)>>,
        \* 'report_static_data': 0x8b771735
    <<<<100, 101, 112, 108, 111, 121>>, Word(0, 0)>>,
        \* 'deploy': 0x0
    <<<<115, 105, 109, 112, 108, 101, 95, 116, 114, 97, 110, 115, 102, 101, 114>>,
        Word(0, 0)>>
        \* 'simple_transfer': 0x0
}

\* STANDARD_OPCODES is an object literal: a property read also finds what
\* Object.prototype defines.  Of those names only 'constructor' and
\* '__proto__' are their own lower-case form.
ObjectPrototype == {
    <<<<99, 111, 110, 115, 116, 114, 117, 99, 116, 111, 114>>,
        [kind |-> "function", neg |-> FALSE, hi |-> 0, lo |-> 0]>>,
        \* 'constructor'
    <<<<95, 95, 112, 114, 111, 116, 111, 95, 95>>,
        [kind |-> "object", neg |-> FALSE, hi |-> 0, lo |-> 0]>>
        \* '__proto__'
}

\* TonService.STANDARD_OPCODES[key]
PropertyRead(key) ==
    IF \E e \in STANDARD_OPCODES : e[1] = key
    THEN (CHOOSE e \in STANDARD_OPCODES : e[1] = key)[2]
    ELSE IF \E e \in ObjectPrototype : e[1] = key
    THEN (CHOOSE e \in ObjectPrototype : e[1] = key)[2]
    ELSE Undefined

Polynomial == Word(60856, 33568)      \* 0xEDB88320
RECURSIVE crcShift(_, _)
crcShift(crc, j) ==
    IF j = 8 THEN crc
    ELSE IF LowBits(crc, 1) # 0 THEN crcShift(Xor(Ushr(crc, 1), Polynomial), j + 1)
    ELSE crcShift(Ushr(crc, 1), j + 1)
NoTable == [built |-> FALSE, table |-> << >>]
getCrc32Table(memo) ==
    IF memo.built THEN memo
    ELSE [built |-> TRUE,
          table |-> [i \in 0..255 |-> ToUint32(crcShift(Word(0, i), 0))]]

RECURSIVE crcLoop(_, _, _, _)
crcLoop(str, table, crc, i) ==
    IF i > Len(str) THEN crc
    ELSE crcLoop(str, table,
                 Xor(Ushr(crc, 8), table[LowBits(Xor(crc, Word(0, str[i])), 8)]),
                 i + 1)
computeCrc32(str, table) ==
    ToUint32(Xor(crcLoop(str, table, Word(65535, 65535), 1), Word(65535, 65535)))

\* (slip: the standard table consulted before the caller's opcode)
methodToOpcode_tableFirst(method, customOpcode, memo) ==
    LET standardOpcode == PropertyRead(toLowerCase(method)) IN
    IF standardOpcode # Undefined THEN [value |-> standardOpcode, memo |-> memo]
    ELSE IF customOpcode # Undefined THEN [value |-> customOpcode, memo |-> memo]
    ELSE LET t == getCrc32Table(memo) IN
         [value |-> computeCrc32(method, t.table), memo |-> t]
\* the opcode returned, and TonService.crc32Table after the call
methodToOpcode(method, customOpcode, memo) ==
    IF customOpcode # Undefined THEN [value |-> customOpcode, memo |-> memo]
    ELSE LET standardOpcode == PropertyRead(toLowerCase(method)) IN
         IF standardOpcode # Undefined THEN [value |-> standardOpcode, memo |-> memo]
         ELSE LET t == getCrc32Table(memo) IN
              [value |-> computeCrc32(method, t.table), memo |-> t]

MethodToOpcode(method, customOpcode) ==
    /\ Len(opLog) < MaxOpcodeCalls
    /\ LET r == methodToOpcode(method, customOpcode, crc32Table) IN
        /\ opLog' = Append(opLog, [method |-> method, customOpcode |-> customOpcode,
                                  value |-> r.value, memoized |-> crc32Table.built])
        /\ crc32Table' = r.memo
    /\ UNCHANGED <<svcVars, chainVars, taskVars, vaVars, notOpVars>>

OpIdle ==
    /\ crc32Table = NoTable
    /\ opLog = << >>

\* ---------------------------------------------- JettonTransferEncoder
\* A decimal string is the sequence of its characters.
DigitChars == <<"0", "1", "2", "3", "4", "5", "6", "7", "8", "9">>
IsDigit(c) == \E i \in 1..10 : DigitChars[i] = c
DigitValue(c) == (CHOOSE i \in 1..10 : DigitChars[i] = c) - 1
RECURSIVE DigitsValue(_)
DigitsValue(ds) ==
    IF ds = << >> THEN 0 ELSE 10 * DigitsValue(SubSeq(ds, 1, Len(ds) - 1)) + DigitValue(ds[Len(ds)])
DotAt(str) == IF \E i \in 1..Len(str) : str[i] = "."
              THEN CHOOSE i \in 1..Len(str) : str[i] = "." /\ \A j \in 1..(i - 1) : str[j] # "."
              ELSE Len(str) + 1
\* toNano(src): the amount in nano units (9 decimals), or the parser throws
toNano(str) ==
    LET whole == SubSeq(str, 1, DotAt(str) - 1)
        frac == SubSeq(str, DotAt(str) + 1, Len(str))
    IN IF /\ str # << >>
          /\ \A i \in 1..Len(whole) : IsDigit(whole[i])
          /\ \A i \in 1..Len(frac) : IsDigit(frac[i])
          /\ Len(frac) <= 9
       THEN [ok |-> TRUE,
             value |-> DigitsValue(whole) * 10^9 + DigitsValue(frac) * 10^(9 - Len(frac))]
       ELSE [ok |-> FALSE, value |-> 0]

\* A cell under construction is the sequence of the fields stored so far,
\* each with the number of bits it takes.
beginCell == << >>
storeUint(b, v, n) == Append(b, [type |-> "uint", bits |-> n, value |-> v])
RECURSIVE ByteLength(_)
ByteLength(v) == IF v = 0 THEN 0 ELSE 1 + ByteLength(v \div 256)
storeCoins(b, v) == Append(b, [type |-> "coins", bits |-> 4 + 8 * ByteLength(v), value |-> v])
storeAddress(b, a) == Append(b, [type |-> "address", bits |-> 267, value |-> a])
storeBit(b, x) == Append(b, [type |-> "bit", bits |-> 1, value |-> x])

\* this.wallet.address
WalletContractAddress == AddressString(<<"w", "a", "l", "l", "e", "t">>)
NoBody == [built |-> FALSE, threw |-> FALSE, fields |-> << >>]
BodyThrew == [built |-> FALSE, threw |-> TRUE, fields |-> << >>]
Body(b) == [built |-> TRUE, threw |-> FALSE, fields |-> b]

\* (slip: destination and response_destination stored in the other order)
transferBody_swapped(toAddress, amount, forwardAmount, now) ==
    IF ~toNano(amount).ok \/ AddressParse(toAddress) # "ok" \/ ~toNano(forwardAmount).ok
    THEN BodyThrew
    ELSE Body(storeBit(storeCoins(storeBit(storeAddress(storeAddress(storeCoins(
             storeUint(storeUint(beginCell, Word(3978, 32421), 32), now, 64),
             toNano(amount).value), WalletContractAddress), toAddress), FALSE),
             toNano(forwardAmount).value), FALSE))
\* transferJettons: the transfer body, or an argument made its construction throw
transferBody(toAddress, amount, forwardAmount, now) ==
    IF ~toNano(amount).ok \/ AddressParse(toAddress) # "ok" \/ ~toNano(forwardAmount).ok
    THEN BodyThrew
    ELSE Body(storeBit(storeCoins(storeBit(storeAddress(storeAddress(storeCoins(
             storeUint(storeUint(beginCell, Word(3978, 32421), 32), now, 64),
             toNano(amount).value), toAddress), WalletContractAddress), FALSE),
             toNano(forwardAmount).value), FALSE))

NoJettonArgs == [toAddress |-> NullAddress, amount |-> << >>, forwardAmount |-> << >>]
\* transferJettons(jettonWalletAddress, toAddress, amount, forwardAmount) on an
\* initialized wallet, from the answer of getSeqno to the built body
TransferJettonsBody(toAddress, amount, forwardAmount, now) ==
    /\ wallet /\ keyPair
    /\ jtBody = NoBody
    /\ jtArgs' = [toAddress |-> toAddress, amount |-> amount, forwardAmount |-> forwardAmount]
    /\ jtNow' = now
    /\ jtBody' = transferBody(toAddress, amount, forwardAmount, now)
    /\ UNCHANGED <<svcVars, chainVars, taskVars, vaVars, notJtVars>>

JtIdle ==
    /\ jtArgs = NoJettonArgs
    /\ jtNow = 0
    /\ jtBody = NoBody

\* ------------------------------------------------------ MetadataDecoder
\* A cell is its data bytes and its references; a content cell also carries
\* what loadDict finds behind the prefix byte.  A string is the sequence of
\* its UTF-16 code units.
Cell(bytes, refs) == [bytes |-> bytes, refs |-> refs]
\* Buffer.toString('utf-8') for sequences of at most two bytes per
\* character; a byte that starts no well-formed sequence becomes U+FFFD
RECURSIVE toStringUtf8(_)
toStringUtf8(bytes) ==
    IF bytes = << >> THEN << >>
    ELSE LET b == Head(bytes) IN
         IF b < 128 THEN <<b>> \o toStringUtf8(Tail(bytes))
         ELSE IF b \in 194..223 /\ Len(bytes) >= 2 /\ bytes[2] \in 128..191
         THEN <<(b - 192) * 64 + (bytes[2] - 128)>> \o toStringUtf8(Tail(Tail(bytes)))
         ELSE <<65533>> \o toStringUtf8(Tail(bytes))

SnakeThrew == [threw |-> TRUE, text |-> << >>]
SnakeText(s) == [threw |-> FALSE, text |-> s]
\* the while loop of parseSnakeData: `cell` is the argument, `current` the
\* cell being read, `str` the local `result` so far
RECURSIVE snakeLoop(_, _, _)
snakeLoop(cell, current, str) ==
    IF current.bytes = << >> THEN SnakeThrew
    ELSE IF Head(current.bytes) = 0
    THEN LET r == str \o toStringUtf8(Tail(current.bytes)) IN
         IF Len(current.refs) > 0 THEN snakeLoop(cell, current.refs[1], r)
         ELSE SnakeText(r)
    ELSE SnakeText(IF Len(cell.bytes) > 0 THEN toStringUtf8(cell.bytes) ELSE str)
parseSnakeData(cell) == snakeLoop(cell, cell, << >>)

\* parseInt(str, 10)
NaN == [tag |-> "nan", n |-> 0]
Num(n) == [tag |-> "int", n |-> n]
NoNumber == [tag |-> "undefined", n |-> 0]
IsSpace(c) == c \in {9, 10, 13, 32}
RECURSIVE skipSpaces(_)
skipSpaces(str) == IF str # << >> /\ IsSpace(Head(str)) THEN skipSpaces(Tail(str)) ELSE str
RECURSIVE leadingDigits(_)
leadingDigits(str) ==
    IF str # << >> /\ Head(str) \in 48..57 THEN <<Head(str)>> \o leadingDigits(Tail(str))
    ELSE << >>
RECURSIVE digitsToInt(_)
digitsToInt(ds) ==
    IF ds = << >> THEN 0
    ELSE 10 * digitsToInt(SubSeq(ds, 1, Len(ds) - 1)) + (ds[Len(ds)] - 48)
parseInt(str) ==
    LET s == skipSpaces(str)
        negative == s # << >> /\ Head(s) = 45
        unsigned == IF s # << >> /\ Head(s) \in {43, 45} THEN Tail(s) ELSE s
        ds == leadingDigits(unsigned)
    IN IF ds = << >> THEN NaN
       ELSE Num(IF negative THEN 0 - digitsToInt(ds) ELSE digitsToInt(ds))

NoString == [defined |-> FALSE, text |-> << >>]
Str(s) == [defined |-> TRUE, text |-> s]
Unknown == <<85, 110, 107, 110, 111, 119, 110>>      \* 'Unknown'
UNKNOWN == <<85, 78, 75, 78, 79, 87, 78>>            \* 'UNKNOWN'
\* x || fallback, for a string
OrString(x, fallback) == IF x.defined /\ x.text # << >> THEN x.text ELSE fallback
\* x ?? fallback, for a number
Coalesce(x, fallback) == IF x.tag = "undefined" THEN fallback ELSE x
\* x || fallback, for a number
OrNumber(x, fallback) == IF x.tag = "int" /\ x.n # 0 THEN x ELSE fallback

\* the TEP-64 attributes the decoder reads; a dictionary key is the SHA-256
\* of the attribute's name
MetadataKeys == {"name", "symbol", "decimals", "description", "image"}
sha256ToBigInt(str) == <<"sha256", str>>
Has(dict, key) == \E en \in dict.entries : en[1] = sha256ToBigInt(key)
Get(dict, key) == (CHOOSE en \in dict.entries : en[1] = sha256ToBigInt(key))[2]

Metadata(n, s, d) == [raised |-> FALSE, name |-> n, symbol |-> s, decimals |-> d]
MetadataRaised == [raised |-> TRUE, name |-> << >>, symbol |-> << >>, decimals |-> NoNumber]
\* the defaults applied at the end of the try block
ApplyDefaults(n, s, d) == Metadata(OrString(n, Unknown), OrString(s, UNKNOWN), Coalesce(d, Num(9)))
\* the try block of parseJettonMetadata
tryParse(content) ==
    IF content.bytes = << >> THEN MetadataRaised
    ELSE IF Head(content.bytes) = 0
    THEN IF content.dict.state # "ok" THEN MetadataRaised
         ELSE LET dict == content.dict
                  read(key) == IF Has(dict, key) THEN parseSnakeData(Get(dict, key))
                               ELSE SnakeText(<< >>)
                  str(key) == IF Has(dict, key) THEN Str(read(key).text) ELSE NoString
              IN IF \E key \in MetadataKeys : read(key).threw THEN MetadataRaised
                 ELSE ApplyDefaults(str("name"), str("symbol"),
                                    IF Has(dict, "decimals")
                                    THEN parseInt(read("decimals").text)
                                    ELSE NoNumber)
    ELSE ApplyDefaults(NoString, NoString, NoNumber)

\* (slip: no try/catch around the decoding)
parseJettonMetadata_uncaught(content) == tryParse(content)
\* parseJettonMetadata: the try block, and the catch block's fixed answer
parseJettonMetadata(content) ==
    IF tryParse(content).raised THEN Metadata(Unknown, UNKNOWN, Num(9))
    ELSE tryParse(content)

\* getJettonInfo after runMethod('get_jetton_data') answered with `content`
getJettonInfo(content) ==
    LET metadata == parseJettonMetadata(content) IN
    IF metadata.raised THEN MetadataRaised
    ELSE Metadata(OrString(Str(metadata.name), Unknown),
                  OrString(Str(metadata.symbol), UNKNOWN),
                  OrNumber(metadata.decimals, Num(9)))

NotParsed == [done |-> FALSE, value |-> MetadataRaised]
Parsed(v) == [done |-> TRUE, value |-> v]
NoContent == [bytes |-> << >>, refs |-> << >>, dict |-> [state |-> "none", entries |-> {}]]

ParseJettonMetadata ==
    /\ ~mdParsed.done
    /\ mdParsed' = Parsed(parseJettonMetadata(mdContent))
    /\ UNCHANGED <<svcVars, chainVars, taskVars, vaVars, notMdVars, mdContent, mdInfo>>

\* getJettonInfo: runMethod rejects (the error is rethrown) or answers
GetJettonInfo(ok) ==
    /\ ~mdInfo.done
    /\ mdInfo' = Parsed(IF ok THEN getJettonInfo(mdContent) ELSE MetadataRaised)
    /\ UNCHANGED <<svcVars, chainVars, taskVars, vaVars, notMdVars, mdContent, mdParsed>>

NoSnake == [done |-> FALSE, threw |-> FALSE, text |-> << >>]
ParseSnakeData ==
    /\ ~snResult.done
    /\ snResult' = [done |-> TRUE, threw |-> parseSnakeData(snCell).threw,
                    text |-> parseSnakeData(snCell).text]
    /\ UNCHANGED <<svcVars, chainVars, taskVars, vaVars, notSnVars, snCell>>

MdIdle ==
    /\ mdContent = NoContent
    /\ mdParsed = NotParsed
    /\ mdInfo = NotParsed

SnIdle ==
    /\ snCell = Cell(<< >>, << >>)
    /\ snResult = NoSnake

\* ---------------------------------------------------------- GasEstimator
\* A message cell, as far as estimateGas looks at it: the number of data
\* bits of the cell itself and its references.
BitCell(bits, refs) == [bits |-> bits, refs |-> refs]
NoMessage == [bits |-> -1, refs |-> << >>]
baseFee == 5000000
forwardFee == 3000000
\* Math.ceil(a / b)
Ceil(a, b) == (a + b - 1) \div b
\* (slip: the references of the references are not counted)
countCells_shallow(cell) == 1 + Len(cell.refs)
RECURSIVE countCells(_)
countCells(cell) ==
    LET RECURSIVE over(_)
        over(i) == IF i > Len(cell.refs) THEN 0 ELSE countCells(cell.refs[i]) + over(i + 1)
    IN 1 + over(1)
messageFee(message) ==
    IF message = NoMessage THEN 0
    ELSE Ceil(message.bits, 1000) * 1000000 + countCells(message) * 500000
estimateGas(message) == baseFee + messageFee(message) + forwardFee

NotEstimated == -1
EstimateGas(which) ==
    /\ gasEstimate[which] = NotEstimated
    /\ gasEstimate' = [gasEstimate EXCEPT ![which] =
                           estimateGas(IF which = "none" THEN NoMessage ELSE gasMessage[which])]
    /\ UNCHANGED <<svcVars, chainVars, taskVars, vaVars, notGasVars, gasMessage>>

GasIdle ==
    /\ gasMessage = [w \in {"m1", "m2"} |-> NoMessage]
    /\ gasEstimate = [w \in {"none", "m1", "m2"} |-> NotEstimated]

\* ------------------------------------------------------------ MiniAppServer
\* crypto.createHmac('sha256', key).update(data).digest(): a digest is
\* determined by key and data, and two digests are equal only if both are.
createHmac(key, data) == [key |-> key, data |-> data]
ConfigSecret == "bot-token"
\* the x-telegram-init-data header: absent, or a query string, held as the
\* entries URLSearchParams reads from it (the empty string has none)
NoHeader == [present |-> FALSE, params |-> << >>]
InitDataHeader(params) == [present |-> TRUE, params |-> params]
\* `initData &&`: undefined and the empty string are falsy
HeaderTruthy(h) == h.present /\ h.params # << >>

\* urlParams.get(name): the first value of that name, or null
RECURSIVE paramsGet(_, _)
paramsGet(params, name) ==
    IF params = << >> THEN [found |-> FALSE, value |-> createHmac("", << >>)]
    ELSE IF Head(params)[1] = name THEN [found |-> TRUE, value |-> Head(params)[2]]
    ELSE paramsGet(Tail(params), name)
\* urlParams.delete(name): every entry of that name goes
paramsDelete(params, name) == SelectSeq(params, LAMBDA p : p[1] # name)
\* a.localeCompare(b) < 0 for the keys that occur
KeyRank(k) == CASE k = "auth_date" -> 1 [] k = "hash" -> 2 [] k = "query_id" -> 3 [] OTHER -> 4
RECURSIVE insertSorted(_, _)
insertSorted(sorted, p) ==
    IF sorted = << >> THEN <<p>>
    ELSE IF KeyRank(p[1]) < KeyRank(Head(sorted)[1]) THEN <<p>> \o sorted
    ELSE <<Head(sorted)>> \o insertSorted(Tail(sorted), p)
\* Array.prototype.sort by key (stable)
RECURSIVE sortEntries(_)
sortEntries(params) ==
    IF params = << >> THEN << >>
    ELSE insertSorted(sortEntries(SubSeq(params, 1, Len(params) - 1)), params[Len(params)])
\* the `key=value` lines, in order (joined by '\n' in the code)
dataCheckString(params) ==
    LET sorted == sortEntries(paramsDelete(params, "hash"))
    IN [i \in 1..Len(sorted) |-> <<sorted[i][1], "=", sorted[i][2]>>]
signature(params, secret) ==
    createHmac(createHmac("WebAppData", secret), dataCheckString(params))
\* (slip: any init data that carries a hash is accepted)
validateTelegramWebAppData_anyHash(params) == paramsGet(params, "hash").found
validateTelegramWebAppData(params) ==
    LET hash == paramsGet(params, "hash")
        calculatedHash == signature(params, ConfigSecret)
    IN hash.found /\ calculatedHash = hash.value

\* a request: method, path, the init-data header and the body of /api/send
NoAmount == [isNull |-> TRUE, text |-> ""]
AmountString(s) == [isNull |-> FALSE, text |-> s]
HttpRequest(method, path, header, toAddress, amount) ==
    [method |-> method, path |-> path, header |-> header,
     toAddress |-> toAddress, amount |-> amount]
NoHttpRequest == HttpRequest("", "", NoHeader, NullAddress, NoAmount)
NoResponse == 0

\* a request arrives; the server takes one request at a time here
AppReceive(request) ==
    /\ appStage = "idle"
    /\ appCount < MaxRequests
    /\ appReq' = request
    /\ appStage' = "cors"
    /\ appStatus' = NoResponse
    /\ appCount' = appCount + 1
    /\ UNCHANGED <<svcVars, chainVars, taskVars, vaVars, notAppVars, appSent>>

\* first middleware: CORS headers, OPTIONS answered at once
AppCors ==
    /\ appStage = "cors"
    /\ IF appReq.method = "OPTIONS"
       THEN appStage' = "idle" /\ appStatus' = 200
       ELSE appStage' = "auth" /\ UNCHANGED appStatus
    /\ UNCHANGED <<svcVars, chainVars, taskVars, vaVars, notAppVars, appReq, appSent, appCount>>

\* second middleware: init data, if there is any, must validate
AppAuth ==
    /\ appStage = "auth"
    /\ IF HeaderTruthy(appReq.header) /\ ~validateTelegramWebAppData(appReq.header.params)
       THEN appStage' = "idle" /\ appStatus' = 401
       ELSE appStage' = "route" /\ UNCHANGED appStatus
    /\ UNCHANGED <<svcVars, chainVars, taskVars, vaVars, notAppVars, appReq, appSent, appCount>>

\* POST /api/send; sendTransaction returns or throws
AppPostSend(sent) ==
    /\ appStage = "route"
    /\ appReq.method = "POST" /\ appReq.path = "/api/send"
    /\ appStage' = "idle"
    /\ IF (appReq.toAddress.isNull \/ appReq.toAddress.text = << >>)
            \/ (appReq.amount.isNull \/ appReq.amount.text = "")
       THEN appStatus' = 400 /\ UNCHANGED appSent
       ELSE IF ~validateAddress(appReq.toAddress).value
       THEN appStatus' = 400 /\ UNCHANGED appSent
       ELSE IF sent
       THEN appStatus' = 200 /\ appSent' = Append(appSent, appReq)
       ELSE appStatus' = 500 /\ UNCHANGED appSent
    /\ UNCHANGED <<svcVars, chainVars, taskVars, vaVars, notAppVars, appReq, appCount>>

\* GET /api/balance: reads only
AppGetBalance(ok) ==
    /\ appStage = "route"
    /\ appReq.method = "GET" /\ appReq.path = "/api/balance"
    /\ appStage' = "idle"
    /\ appStatus' = IF ok THEN 200 ELSE 500
    /\ UNCHANGED <<svcVars, chainVars, taskVars, vaVars, notAppVars, appReq, appSent, appCount>>

\* no route for the method and path
AppNotFound ==
    /\ appStage = "route"
    /\ ~(appReq.method = "POST" /\ appReq.path = "/api/send")
    /\ ~(appReq.method = "GET" /\ appReq.path = "/api/balance")
    /\ appStage' = "idle"
    /\ appStatus' = 404
    /\ UNCHANGED <<svcVars, chainVars, taskVars, vaVars, notAppVars, appReq, appSent, appCount>>

AppIdle ==
    /\ appReq = NoHttpRequest
    /\ appStage = "idle"
    /\ appStatus = NoResponse
    /\ appSent = << >>
    /\ appCount = 0

\* ---------------------------------------------------------- DemoChatServer
\* Amounts are in thousandths (of a TON, of a token): the wstate starts
\* with 5.234 TON and 150.00 USDT.  A message is a sequence of words from
\* a vocabulary in which no word is part of another, so that
\* text.includes(word) is the occurrence of the word.
NumberWords == {"1", "2"}
numberValue(w) == IF w = "1" THEN 1000 ELSE 2000
lowerWord(w) == IF w = "CONFIRM" THEN "confirm" ELSE w
messageLower(message) == [i \in 1..Len(message) |-> lowerWord(message[i])]
includes(text, w) == \E i \in 1..Len(text) : text[i] = w
\* msg.match(/([\d.]+)/): the first number of the message, 0 for no match
RECURSIVE firstNumber(_)
firstNumber(text) ==
    IF text = << >> THEN 0
    ELSE IF Head(text) \in NumberWords THEN numberValue(Head(text))
    ELSE firstNumber(Tail(text))
\* msg.match(/([\d.]+)\s*ton/i): the first number followed by "ton"
RECURSIVE numberBeforeTon(_)
numberBeforeTon(text) ==
    IF Len(text) < 2 THEN 0
    ELSE IF text[1] \in NumberWords /\ text[2] = "ton" THEN numberValue(text[1])
    ELSE numberBeforeTon(Tail(text))
\* msg.match(/stake\s+([\d.]+)/i)
stakeWithNumber(text) ==
    \E i \in 1..(Len(text) - 1) : text[i] = "stake" /\ text[i + 1] \in NumberWords

InitialWallet == [balance |-> 5234, staked |-> 0, USDT |-> 150000]
NoPending == [type |-> "null", amount |-> 0, toAmount |-> 0]
PendingAction(type, amount, toAmount) == [type |-> type, amount |-> amount, toAmount |-> toAmount]
NoBalance == [defined |-> FALSE, value |-> 0]
ClientBalance(v) == [defined |-> TRUE, value |-> v]
networkFee == 3
\* amount * 1.53
usdtFor(amount) == (amount * 153) \div 100

\* if (currentBalance !== undefined) walletState.balance = currentBalance
syncBalance(wstate, currentBalance) ==
    IF currentBalance.defined THEN [wstate EXCEPT !.balance = currentBalance.value] ELSE wstate

\* the confirm branch on the pending action
executePending(wstate, pending) ==
    CASE pending.type = "send" ->
            [wstate EXCEPT !.balance = wstate.balance - pending.amount - networkFee]
      [] pending.type = "stake" ->
            [wstate EXCEPT !.balance = wstate.balance - pending.amount,
                           !.staked = wstate.staked + pending.amount]
      [] pending.type = "swap" ->
            [wstate EXCEPT !.balance = wstate.balance - pending.amount,
                           !.USDT = wstate.USDT + pending.toAmount]
      [] OTHER -> wstate

Handled(wstate, pending, branch) == [wstate |-> wstate, pending |-> pending, branch |-> branch]

\* the branches of POST /api/chat after the balance sync, in their order
chatBranches(wstate, pending, text) ==
    IF includes(text, "balance") \/ includes(text, "what's my") \/ includes(text, "how much")
    THEN Handled(wstate, pending, "balance")
    ELSE IF includes(text, "analyze") \/ includes(text, "spending") \/ includes(text, "history")
    THEN Handled(wstate, pending, "analysis")
    ELSE IF includes(text, "send") /\ (includes(text, "ton") \/ includes(text, "0.5") \/ includes(text, "1"))
    THEN LET amount == IF numberBeforeTon(text) # 0 THEN numberBeforeTon(text) ELSE 500
         IN Handled(wstate, PendingAction("send", amount, 0), "send")
    ELSE IF includes(text, "confirm") /\ pending # NoPending
    THEN Handled(executePending(wstate, pending), NoPending, "confirm")
    ELSE IF includes(text, "cancel")
    THEN Handled(wstate, NoPending, "cancel")
    ELSE IF includes(text, "stake") \/ includes(text, "staking") \/ includes(text, "yield") \/ includes(text, "earn")
    THEN IF includes(text, "stake") /\ stakeWithNumber(text)
         THEN Handled(wstate, PendingAction("stake", firstNumber(text), 0), "stake")
         ELSE Handled(wstate, pending, "staking info")
    ELSE IF includes(text, "swap")
    THEN IF includes(text, "ton") /\ (includes(text, "usdt") \/ includes(text, "for"))
         THEN LET amount == IF firstNumber(text) # 0 THEN firstNumber(text) ELSE 1000
              IN Handled(wstate, PendingAction("swap", amount, usdtFor(amount)), "swap")
         ELSE Handled(wstate, pending, "swap info")
    ELSE Handled(wstate, pending, "other")

\* (slip: the confirm branch leaves the pending action in place)
chatHandler_keepsPending(wstate, pending, message, currentBalance) ==
    LET h == chatBranches(syncBalance(wstate, currentBalance), pending, messageLower(message))
    IN IF h.branch = "confirm" THEN [h EXCEPT !.pending = pending] ELSE h
\* app.post('/api/chat'): what the handler leaves in walletState and
\* pendingAction, and the branch that answered
chatHandler(wstate, pending, message, currentBalance) ==
    chatBranches(syncBalance(wstate, currentBalance), pending, messageLower(message))

PreparingBranches == {"send", "stake", "swap"}
NoChat ==
    [message |-> << >>, currentBalance |-> NoBalance, branch |-> "none",
     before |-> InitialWallet, since |-> "nothing", prepared |-> NoPending]

\* one chat request.  chatLast keeps the request and what went before it:
\* the wstate state when it arrived, the latest of a preparation, a
\* cancellation and an execution among the earlier requests (since), and
\* the action last prepared.
PostChat(message, currentBalance) ==
    /\ chatCount < MaxChat
    /\ LET h == chatHandler(walletState, pendingAction, message, currentBalance)
           sinceNow ==
               IF chatLast.branch \in PreparingBranches THEN "prepared"
               ELSE IF chatLast.branch = "cancel" THEN "cancelled"
               ELSE IF chatLast.branch = "confirm" THEN "executed"
               ELSE chatLast.since
           preparedNow ==
               IF chatLast.branch \in PreparingBranches THEN pendingAction
               ELSE chatLast.prepared
       IN /\ walletState' = h.wstate
          /\ pendingAction' = h.pending
          /\ chatLast' = [message |-> message, currentBalance |-> currentBalance,
                          branch |-> h.branch, before |-> walletState,
                          since |-> sinceNow, prepared |-> preparedNow]
    /\ chatCount' = chatCount + 1
    /\ UNCHANGED <<svcVars, chainVars, taskVars, vaVars, notChatVars>>

ChatIdle ==
    /\ walletState = InitialWallet
    /\ pendingAction = NoPending
    /\ chatLast = NoChat
    /\ chatCount = 0

\* -------------------------------------------------------------- RateLimiter
\* limits: Map<string, RateLimitEntry>, a function on the users that occur
BotUsers == {"alice", "bob", "carol"}
NoEntry == [present |-> FALSE, requests |-> 0, resetTime |-> 0]
RateLimitEntry(requests, resetTime) ==
    [present |-> TRUE, requests |-> requests, resetTime |-> resetTime]
windowMs == 2
Checked(allowed, newLimits) == [allowed |-> allowed, limits |-> newLimits]

\* (slip: the window restarts with every call that is let through)
checkLimit_sliding(lims, userId, now, maxRequests) ==
    IF lims[userId].present /\ now <= lims[userId].resetTime
          /\ lims[userId].requests >= maxRequests
    THEN Checked(FALSE, lims)
    ELSE Checked(TRUE, [lims EXCEPT ![userId] = RateLimitEntry(1, now + windowMs)])
checkLimit(lims, userId, now, maxRequests) ==
    LET entry == lims[userId] IN
    IF ~entry.present
    THEN Checked(TRUE, [lims EXCEPT ![userId] = RateLimitEntry(1, now + windowMs)])
    ELSE IF now > entry.resetTime
    THEN Checked(TRUE, [lims EXCEPT ![userId] = RateLimitEntry(1, now + windowMs)])
    ELSE IF entry.requests >= maxRequests
    THEN Checked(FALSE, lims)
    ELSE Checked(TRUE, [lims EXCEPT ![userId] = RateLimitEntry(entry.requests + 1, entry.resetTime)])
\* reset(userId): this.limits.delete(userId)
reset(lims, userId) == [lims EXCEPT ![userId] = NoEntry]

\* What an observer of the calls knows of a user's window: the call that
\* opened it, its end (that call's time plus windowMs), the calls let
\* through since, and whether one was refused.
NoWindow == [open |-> FALSE, until |-> 0, passed |-> 0, refused |-> FALSE]
observe(window, now, allowed) ==
    IF window.open /\ now <= window.until
    THEN [window EXCEPT !.passed = IF allowed THEN window.passed + 1 ELSE window.passed,
                        !.refused = window.refused \/ ~allowed]
    ELSE [open |-> TRUE, until |-> now + windowMs,
          passed |-> IF allowed THEN 1 ELSE 0, refused |-> ~allowed]
NoCall == [op |-> "none", userId |-> "", at |-> 0, allowed |-> FALSE,
           opened |-> FALSE, afterRefusal |-> FALSE,
           before |-> [u \in BotUsers |-> NoEntry]]

\* one checkLimit call, as the limiter's state and the observer's record
limiterCall(userId) ==
    LET c == checkLimit(limits, userId, botNow, botConfig.maxRequests)
        w == limWindow[userId]
        inside == w.open /\ botNow <= w.until
    IN /\ limits' = c.limits
       /\ limWindow' = [limWindow EXCEPT ![userId] = observe(w, botNow, c.allowed)]
       /\ limLast' = [op |-> "checkLimit", userId |-> userId, at |-> botNow,
                      allowed |-> c.allowed, opened |-> ~inside,
                      afterRefusal |-> inside /\ (w.refused \/ w.passed >= botConfig.maxRequests),
                      before |-> limits]

CheckLimit(userId) ==
    /\ limiterCall(userId)
    /\ UNCHANGED <<svcVars, chainVars, taskVars, vaVars, notBotVars,
                   botConfig, botNow, botUpdate, botStage, botLast, botHandled>>

Reset(userId) ==
    /\ limits' = reset(limits, userId)
    /\ limWindow' = [limWindow EXCEPT ![userId] = NoWindow]
    /\ limLast' = [NoCall EXCEPT !.op = "reset", !.userId = userId, !.at = botNow,
                                 !.before = limits]
    /\ UNCHANGED <<svcVars, chainVars, taskVars, vaVars, notBotVars,
                   botConfig, botNow, botUpdate, botStage, botLast, botHandled>>

\* Date.now() moves on
ClockTick ==
    /\ botNow < MaxTime
    /\ botNow' = botNow + 1
    /\ UNCHANGED <<svcVars, chainVars, taskVars, vaVars, notBotVars,
                   botConfig, limits, limWindow, limLast, botUpdate, botStage, botLast, botHandled>>

\* -------------------------------------------------------------- TelegramBot
\* An update: its kind, the sender (ctx.from; a channel post has none) and
\* the text.  Telegraf gives command and message('text') handlers the
\* `message` updates only.
NoSender == ""
TgUpdate(kind, from, text) == [kind |-> kind, from |-> from, text |-> text]
NoUpdate == TgUpdate("none", NoSender, "")
BotConfig(allowedUsers, adminUsers, maxRequests) ==
    [allowedUsers |-> allowedUsers, adminUsers |-> adminUsers, maxRequests |-> maxRequests]
isAdmin(update) == update.from \in botConfig.adminUsers
\* (slip: nobody is turned away)
notAuthorized_open(update) == FALSE
notAuthorized(update) ==
    /\ botConfig.allowedUsers # {}
    /\ update.from \notin botConfig.allowedUsers
    /\ ~isAdmin(update)
\* the handler registered for the update, "" for none
handlerFor(update) ==
    IF update.kind # "message" THEN ""
    ELSE IF update.text \in {"/send", "/wallet", "/clear"} THEN update.text
    ELSE "text"
NoOutcome == [update |-> NoUpdate, outcome |-> "none", before |-> [u \in BotUsers |-> NoEntry]]

BotReceive(update) ==
    /\ botStage = "idle"
    /\ botUpdate' = update
    /\ botStage' = "middleware"
    /\ UNCHANGED <<svcVars, chainVars, taskVars, vaVars, notBotVars,
                   botConfig, botNow, limits, limWindow, limLast, botLast, botHandled>>

\* the first middleware of setupMiddleware
BotMiddleware ==
    /\ botStage = "middleware"
    /\ IF botUpdate.from # NoSender
       THEN IF notAuthorized(botUpdate)
            THEN /\ botStage' = "idle"
                 /\ botLast' = [update |-> botUpdate, outcome |-> "not authorized", before |-> limits]
                 /\ UNCHANGED <<limits, limWindow, limLast>>
            ELSE /\ limiterCall(botUpdate.from)
                 /\ IF checkLimit(limits, botUpdate.from, botNow, botConfig.maxRequests).allowed
                    THEN /\ botStage' = "handlers"
                         /\ botLast' = [update |-> botUpdate, outcome |-> "next", before |-> limits]
                    ELSE /\ botStage' = "idle"
                         /\ botLast' = [update |-> botUpdate, outcome |-> "rate limit", before |-> limits]
       ELSE /\ botStage' = "handlers"
            /\ botLast' = [update |-> botUpdate, outcome |-> "next", before |-> limits]
            /\ UNCHANGED <<limits, limWindow, limLast>>
    /\ UNCHANGED <<svcVars, chainVars, taskVars, vaVars, notBotVars,
                   botConfig, botNow, botUpdate, botHandled>>

\* next(): the handler registered for the update runs, if there is one
BotHandlers ==
    /\ botStage = "handlers"
    /\ botStage' = "idle"
    /\ IF handlerFor(botUpdate) = ""
       THEN /\ botLast' = [update |-> botUpdate, outcome |-> "no handler", before |-> limits]
            /\ UNCHANGED botHandled
       ELSE /\ botLast' = [update |-> botUpdate, outcome |-> handlerFor(botUpdate), before |-> limits]
            /\ botHandled' = botHandled \cup {[update |-> botUpdate, handler |-> handlerFor(botUpdate)]}
    /\ UNCHANGED <<svcVars, chainVars, taskVars, vaVars, notBotVars,
                   botConfig, botNow, limits, limWindow, limLast, botUpdate>>

BotIdle ==
    /\ botConfig = BotConfig({}, {}, 1)
    /\ botNow = 0
    /\ limits = [u \in BotUsers |-> NoEntry]
    /\ limWindow = [u \in BotUsers |-> NoWindow]
    /\ limLast = NoCall
    /\ botUpdate = NoUpdate
    /\ botStage = "idle"
    /\ botLast = NoOutcome
    /\ botHandled = {}

\* ------------------------------------------------------------ CacheManager
\* Two stores, each a function from the keys to a value or to nothing.
\* Expiry is left out: it only takes entries away.
CacheKeys == {"k1", "k2"}
CacheValues == {"v1", "v2"}
Missing == "missing"
EmptyStore == [k \in CacheKeys |-> Missing]
\* the result of an operation: what get returns (null for the others)
CacheNull == "null"
CacheCall(op, key, returned, afterDel) ==
    [op |-> op, key |-> key, returned |-> returned, afterDel |-> afterDel]
NoCacheCall == CacheCall("none", "", CacheNull, FALSE)

\* get(key); redisFails: the Redis command rejects
cacheGet(key, redisFails) ==
    IF redisClient /\ redisFails THEN CacheNull
    ELSE IF redisClient /\ redisStore[key] # Missing THEN redisStore[key]
    ELSE IF nodeCache[key] # Missing THEN nodeCache[key]
    ELSE CacheNull

CacheGet(key, redisFails) ==
    /\ cacheLast' = CacheCall("get", key, cacheGet(key, redisFails), key \in cacheDeleted)
    /\ UNCHANGED <<svcVars, chainVars, taskVars, vaVars, notCacheVars,
                   redisClient, redisStore, nodeCache, cacheDeleted>>

\* set(key, value): Redis first, the in-memory cache in any case
CacheSet(key, value, redisFails) ==
    /\ redisStore' = IF redisClient /\ ~redisFails
                     THEN [redisStore EXCEPT ![key] = value] ELSE redisStore
    /\ nodeCache' = [nodeCache EXCEPT ![key] = value]
    /\ cacheDeleted' = cacheDeleted \ {key}
    /\ cacheLast' = CacheCall("set", key, CacheNull, FALSE)
    /\ UNCHANGED <<svcVars, chainVars, taskVars, vaVars, notCacheVars, redisClient>>

\* del(key): a Redis command that rejects ends the try block
CacheDel(key, redisFails) ==
    /\ IF redisClient /\ redisFails
       THEN UNCHANGED <<redisStore, nodeCache>>
       ELSE /\ redisStore' = IF redisClient THEN [redisStore EXCEPT ![key] = Missing]
                             ELSE redisStore
            /\ nodeCache' = [nodeCache EXCEPT ![key] = Missing]
    /\ cacheDeleted' = cacheDeleted \cup {key}
    /\ cacheLast' = CacheCall("del", key, CacheNull, FALSE)
    /\ UNCHANGED <<svcVars, chainVars, taskVars, vaVars, notCacheVars, redisClient>>

\* clear()
CacheClear(redisFails) ==
    /\ IF redisClient /\ redisFails
       THEN UNCHANGED <<redisStore, nodeCache>>
       ELSE /\ redisStore' = IF redisClient THEN EmptyStore ELSE redisStore
            /\ nodeCache' = EmptyStore
    /\ cacheDeleted' = CacheKeys
    /\ cacheLast' = CacheCall("clear", "", CacheNull, FALSE)
    /\ UNCHANGED <<svcVars, chainVars, taskVars, vaVars, notCacheVars, redisClient>>

\* the client's 'error' event, or a failed connect: redisClient = null
RedisError ==
    /\ redisClient
    /\ redisClient' = FALSE
    /\ UNCHANGED <<svcVars, chainVars, taskVars, vaVars, notCacheVars,
                   redisStore, nodeCache, cacheDeleted, cacheLast>>

CacheIdle ==
    /\ redisClient = FALSE
    /\ redisStore = EmptyStore
    /\ nodeCache = EmptyStore
    /\ cacheDeleted = {}
    /\ cacheLast = NoCacheCall

\* ---------------------------------------------------- MethodCallEncoder
\* One element of params: what `typeof` gives for it (js); for an object
\* with a `type` property its tag, and value / bits in the field of their
\* JavaScript type (num, str, flag).
Typed(tag, n, bits, s, f) ==
    [js |-> "object", tag |-> tag, num |-> n, bits |-> bits, str |-> s, flag |-> f]
Legacy(js, n, s, f) ==
    [js |-> js, tag |-> "", num |-> n, bits |-> 0, str |-> s, flag |-> f]

ErrOutOfRange == "value is out of range"
ErrInvalidNumber == "Invalid number"
ErrUnknownAddress == "Unknown address type"
ErrOverflow == "BitBuilder overflow"
ErrTooManyRefs == "Too many references"

\* what one parameter stores, or the error its conversion throws
Encoded(fs) == [error |-> "", fields |-> fs]
Raised(err) == [error |-> err, fields |-> << >>]
\* Builder.storeUint / storeInt refuse a value that does not fit
fitsUint(v, n) == v >= 0 /\ (n >= 31 \/ v < 2^n)
fitsInt(v, n) == n >= 32 \/ (v >= -(2^(n - 1)) /\ v < 2^(n - 1))
storeInt(b, v, n) == Append(b, [type |-> "int", bits |-> n, value |-> v])
storeRef(b, c) == Append(b, [type |-> "ref", bits |-> 0, value |-> c])
storeSlice(b, c) == Append(b, [type |-> "slice", bits |-> 8, value |-> c])
storeBuffer(b, bytes) == Append(b, [type |-> "buffer", bits |-> 8 * Len(bytes), value |-> bytes])
\* param.bits || 32
bitsOr32(bits) == IF bits = 0 THEN 32 ELSE bits
\* param.includes('.') || param.match(/^\d+$/)
looksNumeric(s) ==
    \/ \E i \in 1..Len(s) : s[i] = "."
    \/ s # << >> /\ \A i \in 1..Len(s) : IsDigit(s[i])

\* the body of the loop over params
encodeParam(p) ==
    IF p.js = "object" THEN
        CASE p.tag = "uint" ->
                IF fitsUint(p.num, bitsOr32(p.bits))
                THEN Encoded(storeUint(beginCell, p.num, bitsOr32(p.bits)))
                ELSE Raised(ErrOutOfRange)
          [] p.tag = "int" ->
                IF fitsInt(p.num, bitsOr32(p.bits))
                THEN Encoded(storeInt(beginCell, p.num, bitsOr32(p.bits)))
                ELSE Raised(ErrOutOfRange)
          [] p.tag = "coins" ->
                IF toNano(p.str).ok
                THEN Encoded(storeCoins(beginCell, toNano(p.str).value))
                ELSE Raised(ErrInvalidNumber)
          [] p.tag = "address" ->
                IF AddressParse(AddressString(p.str)) = "ok"
                THEN Encoded(storeAddress(beginCell, AddressString(p.str)))
                ELSE Raised(ErrUnknownAddress)
          [] p.tag = "bool" -> Encoded(storeBit(beginCell, p.flag))
          [] p.tag = "cell" -> Encoded(storeRef(beginCell, p.num))
          [] p.tag = "slice" -> Encoded(storeSlice(beginCell, p.num))
          [] p.tag = "opcode" -> Encoded(<< >>)
          [] OTHER -> Encoded(<< >>)            \* logger.warn(...), skipping
    ELSE IF p.js = "number" THEN
        IF fitsUint(p.num, 32) THEN Encoded(storeUint(beginCell, p.num, 32))
        ELSE Raised(ErrOutOfRange)
    ELSE IF p.js = "bigint" THEN
        IF fitsUint(p.num, 64) THEN Encoded(storeUint(beginCell, p.num, 64))
        ELSE Raised(ErrOutOfRange)
    ELSE IF p.js = "string" THEN
        IF AddressParse(AddressString(p.str)) = "ok"
        THEN Encoded(storeAddress(beginCell, AddressString(p.str)))
        ELSE IF looksNumeric(p.str)
        THEN IF toNano(p.str).ok
             THEN Encoded(storeCoins(beginCell, toNano(p.str).value))
             ELSE Raised(ErrInvalidNumber)
        ELSE Encoded(storeBuffer(beginCell, p.str))
    ELSE IF p.js = "boolean" THEN Encoded(storeBit(beginCell, p.flag))
    ELSE Encoded(<< >>)                          \* no branch takes it

RECURSIVE fieldBits(_)
fieldBits(fs) == IF fs = << >> THEN 0 ELSE Head(fs).bits + fieldBits(Tail(fs))
RECURSIVE fieldRefs(_)
fieldRefs(fs) ==
    IF fs = << >> THEN 0
    ELSE (IF Head(fs).type = "ref" THEN 1 ELSE 0) + fieldRefs(Tail(fs))

\* (slip: a field that does not fit in the cell is left out)
appendFields_truncating(b, fs) ==
    IF fieldRefs(b.fields \o fs) > 4 \/ fieldBits(b.fields \o fs) > 1023 THEN b
    ELSE [b EXCEPT !.fields = @ \o fs]
\* the builder.store... calls of one parameter: a cell holds at most 1023
\* bits and 4 references, a store beyond that throws
appendFields(b, fs) ==
    IF fieldRefs(b.fields \o fs) > 4 THEN [b EXCEPT !.error = ErrTooManyRefs]
    ELSE IF fieldBits(b.fields \o fs) > 1023 THEN [b EXCEPT !.error = ErrOverflow]
    ELSE [b EXCEPT !.fields = @ \o fs]

RECURSIVE storeParams(_, _)
storeParams(b, ps) ==
    IF ps = << >> \/ b.error # "" THEN b
    ELSE LET enc == encodeParam(Head(ps)) IN
         IF enc.error # "" THEN [b EXCEPT !.error = enc.error]
         ELSE storeParams(appendFields(b, enc.fields), Tail(ps))

\* buildMethodCallBody(method, params) at the time `now`: the fields of the
\* cell returned, or the error thrown
buildMethodCallBody(method, params, now) ==
    storeParams(Encoded(storeUint(storeUint(beginCell,
                    methodToOpcode(method, Undefined, NoTable).value, 32), now, 64)),
                params)

\* 'transfer'
TransferMethod == <<116, 114, 97, 110, 115, 102, 101, 114>>
ValidAddressText == <<"A", "A", "A", "A">>
NoMethodCall == [params |-> << >>, amount |-> << >>, body |-> Encoded(<< >>),
                 submitted |-> FALSE, polling |-> FALSE,
                 result |-> [success |-> FALSE, error |-> ""]]

\* callContractMethod for a state-changing call on an initialized wallet,
\* from the answer of getSeqno on, with a node that accepts the message
CallContractMethodBody(params, amount) ==
    /\ wallet /\ keyPair
    /\ amount # << >> \/ params # << >>
    /\ Len(mcLog) < MaxBuilds
    /\ LET body == buildMethodCallBody(TransferMethod, params, mcNow)
           value == toNano(IF amount = << >> THEN <<"0", ".", "1">> ELSE amount)
           err == IF body.error # "" THEN body.error
                  ELSE IF ~value.ok THEN ErrInvalidNumber ELSE ""
       IN /\ mcCall' = [params |-> params, amount |-> amount, body |-> body,
                        submitted |-> (err = ""), polling |-> (err = ""),
                        result |-> [success |-> (err = ""), error |-> err]]
          /\ mcLog' = IF body.error = ""
                      THEN Append(mcLog, [kind |-> "method", queryId |-> body.fields[2].value])
                      ELSE mcLog
    /\ UNCHANGED <<svcVars, chainVars, taskVars, vaVars, notMcVars, mcNow>>

\* transferJettons on the same service: its body is built with Date.now()
TransferJettonsQueryId ==
    /\ wallet /\ keyPair
    /\ Len(mcLog) < MaxBuilds
    /\ LET body == transferBody(AddressString(ValidAddressText), <<"1">>, <<"1">>, mcNow)
       IN mcLog' = Append(mcLog, [kind |-> "jetton", queryId |-> body.fields[2].value])
    /\ UNCHANGED <<svcVars, chainVars, taskVars, vaVars, notMcVars, mcNow, mcCall>>

\* the clock moves to the next millisecond
McTick ==
    /\ mcNow < MaxClock
    /\ mcNow' = mcNow + 1
    /\ UNCHANGED <<svcVars, chainVars, taskVars, vaVars, notMcVars, mcLog, mcCall>>

McIdle ==
    /\ mcNow = 0
    /\ mcLog = << >>
    /\ mcCall = NoMethodCall

\* --------------------------------------------------- ConversationManager
\* A conversation is its messages (each one a number) and its lastActivity.
ConvUsers == {"alice"}
Conversation(messages, lastActivity) == [messages |-> messages, lastActivity |-> lastActivity]
NoConversation == [present |-> FALSE, messages |-> << >>, lastActivity |-> 0]
Held(c) == [present |-> TRUE, messages |-> c.messages, lastActivity |-> c.lastActivity]
\* a key of Redis: the JSON text and the time the key expires (EX)
NoKey == [present |-> FALSE, data |-> [messages |-> << >>, lastActivity |-> 0], expiresAt |-> 0]
\* Conversation.trimMessages(maxMessages)
trimMessages(messages, maxMessages) ==
    IF Len(messages) > maxMessages
    THEN SubSeq(messages, Len(messages) - maxMessages + 1, Len(messages))
    ELSE messages
\* Conversation.toJSON (the userId is that of the key)
toJSON(c) == [messages |-> c.messages, lastActivity |-> c.lastActivity]
\* Conversation.fromJSON(data, userId): the constructor sets lastActivity
fromJSON(data, now) == Conversation(data.messages, now)
\* redis.get(key): a key past its expiry is gone
redisGet(store, userId, now) ==
    IF store[userId].present /\ now < store[userId].expiresAt THEN store[userId] ELSE NoKey

NoSave == [state |-> "none", messages |-> << >>, at |-> 0, lastActivity |-> 0,
           writeFailed |-> FALSE]
NoConvCall == [op |-> None, userId |-> "", readFailed |-> FALSE, returned |-> << >>,
               after |-> "none", afterFailed |-> FALSE, expected |-> << >>,
               within |-> FALSE]

\* getConversation(userId)
GetConversation(userId, redisFails) ==
    /\ LET data == redisGet(redisConv, userId, convNow)
           held == conversations[userId]
           stale == convNow - held.lastActivity > conversationTimeout
           returned ==
               IF convRedis
               THEN IF ~redisFails /\ data.present
                    THEN fromJSON(data.data, convNow).messages
                    ELSE << >>
               ELSE IF held.present /\ ~stale THEN held.messages ELSE << >>
       IN /\ conversations' =
                IF ~convRedis /\ held.present /\ stale
                THEN [conversations EXCEPT ![userId] = NoConversation]
                ELSE conversations
          /\ convLast' = [op |-> "get", userId |-> userId,
                          readFailed |-> (convRedis /\ redisFails), returned |-> returned,
                          after |-> convSaved[userId].state,
                          afterFailed |-> convSaved[userId].writeFailed,
                          expected |-> convSaved[userId].messages,
                          within |-> (/\ convNow - convSaved[userId].at < conversationTimeout
                                      /\ convNow - convSaved[userId].lastActivity
                                            < conversationTimeout)]
    /\ UNCHANGED <<svcVars, chainVars, taskVars, vaVars, notConvVars,
                   convRedis, redisConv, convNow, convSaved>>

\* saveConversation(userId, conversation)
SaveConversation(userId, conversation, redisFails) ==
    /\ conversation.lastActivity <= convNow
    /\ LET trimmed == Conversation(trimMessages(conversation.messages, 50),
                                   conversation.lastActivity)
       IN /\ IF convRedis /\ ~redisFails
             THEN /\ redisConv' = [redisConv EXCEPT ![userId] =
                         [present |-> TRUE, data |-> toJSON(trimmed),
                          expiresAt |-> convNow + conversationTimeout]]
                  /\ UNCHANGED conversations
             ELSE /\ conversations' = [conversations EXCEPT ![userId] = Held(trimmed)]
                  /\ UNCHANGED redisConv
          /\ convSaved' = [convSaved EXCEPT ![userId] =
                [state |-> "saved", messages |-> conversation.messages,
                 at |-> convNow, lastActivity |-> conversation.lastActivity,
                 writeFailed |-> (convRedis /\ redisFails)]]
    /\ convLast' = [NoConvCall EXCEPT !.op = "save", !.userId = userId]
    /\ UNCHANGED <<svcVars, chainVars, taskVars, vaVars, notConvVars, convRedis, convNow>>

\* clearConversation(userId)
ClearConversation(userId, redisFails) ==
    /\ IF convRedis
       THEN /\ redisConv' = IF redisFails THEN redisConv
                            ELSE [redisConv EXCEPT ![userId] = NoKey]
            /\ UNCHANGED conversations
       ELSE /\ conversations' = [conversations EXCEPT ![userId] = NoConversation]
            /\ UNCHANGED redisConv
    /\ convSaved' = [convSaved EXCEPT ![userId] =
            [NoSave EXCEPT !.state = "cleared", !.writeFailed = (convRedis /\ redisFails)]]
    /\ convLast' = [NoConvCall EXCEPT !.op = "clear", !.userId = userId]
    /\ UNCHANGED <<svcVars, chainVars, taskVars, vaVars, notConvVars, convRedis, convNow>>

\* the clock moves on
ConvTick ==
    /\ convNow < MaxConvTime
    /\ convNow' = convNow + 1
    /\ UNCHANGED <<svcVars, chainVars, taskVars, vaVars, notConvVars,
                   convRedis, redisConv, conversations, convSaved, convLast>>

ConvIdle ==
    /\ convRedis = FALSE
    /\ redisConv = [u \in ConvUsers |-> NoKey]
    /\ conversations = [u \in ConvUsers |-> NoConversation]
    /\ convNow = 0
    /\ convSaved = [u \in ConvUsers |-> NoSave]
    /\ convLast = NoConvCall

RestIdle ==
    /\ OpIdle
    /\ JtIdle
    /\ MdIdle
    /\ SnIdle
    /\ GasIdle
    /\ AppIdle
    /\ ChatIdle
    /\ BotIdle
    /\ CacheIdle
    /\ McIdle
    /\ ConvIdle
NotOpIdle ==
    /\ JtIdle
    /\ MdIdle
    /\ SnIdle
    /\ GasIdle
    /\ AppIdle
    /\ ChatIdle
    /\ BotIdle
    /\ CacheIdle
    /\ McIdle
    /\ ConvIdle
NotJtIdle ==
    /\ OpIdle
    /\ MdIdle
    /\ SnIdle
    /\ GasIdle
    /\ AppIdle
    /\ ChatIdle
    /\ BotIdle
    /\ CacheIdle
    /\ McIdle
    /\ ConvIdle
NotMdIdle ==
    /\ OpIdle
    /\ JtIdle
    /\ SnIdle
    /\ GasIdle
    /\ AppIdle
    /\ ChatIdle
    /\ BotIdle
    /\ CacheIdle
    /\ McIdle
    /\ ConvIdle
NotSnIdle ==
    /\ OpIdle
    /\ JtIdle
    /\ MdIdle
    /\ GasIdle
    /\ AppIdle
    /\ ChatIdle
    /\ BotIdle
    /\ CacheIdle
    /\ McIdle
    /\ ConvIdle
NotGasIdle ==
    /\ OpIdle
    /\ JtIdle
    /\ MdIdle
    /\ SnIdle
    /\ AppIdle
    /\ ChatIdle
    /\ BotIdle
    /\ CacheIdle
    /\ McIdle
    /\ ConvIdle
NotAppIdle ==
    /\ OpIdle
    /\ JtIdle
    /\ MdIdle
    /\ SnIdle
    /\ GasIdle
    /\ ChatIdle
    /\ BotIdle
    /\ CacheIdle
    /\ McIdle
    /\ ConvIdle
NotChatIdle ==
    /\ OpIdle
    /\ JtIdle
    /\ MdIdle
    /\ SnIdle
    /\ GasIdle
    /\ AppIdle
    /\ BotIdle
    /\ CacheIdle
    /\ McIdle
    /\ ConvIdle
NotBotIdle ==
    /\ OpIdle
    /\ JtIdle
    /\ MdIdle
    /\ SnIdle
    /\ GasIdle
    /\ AppIdle
    /\ ChatIdle
    /\ CacheIdle
    /\ McIdle
    /\ ConvIdle
NotCacheIdle ==
    /\ OpIdle
    /\ JtIdle
    /\ MdIdle
    /\ SnIdle
    /\ GasIdle
    /\ AppIdle
    /\ ChatIdle
    /\ BotIdle
    /\ McIdle
    /\ ConvIdle
NotMcIdle ==
    /\ OpIdle
    /\ JtIdle
    /\ MdIdle
    /\ SnIdle
    /\ GasIdle
    /\ AppIdle
    /\ ChatIdle
    /\ BotIdle
    /\ CacheIdle
    /\ ConvIdle
NotConvIdle ==
    /\ OpIdle
    /\ JtIdle
    /\ MdIdle
    /\ SnIdle
    /\ GasIdle
    /\ AppIdle
    /\ ChatIdle
    /\ BotIdle
    /\ CacheIdle
    /\ McIdle

\* -------------------------------------------------------- specifications
TaskInit ==
    /\ calls = 0
    /\ inits = 0
    /\ nextMsg = 1
    /\ pc = [t \in Tasks |-> "idle"]
    /\ req = [t \in Tasks |-> NoRequest]
    /\ readyAtCall = [t \in Tasks |-> FALSE]
    /\ seqno = [t \in Tasks |-> -1]
    /\ attempt = [t \in Tasks |-> 0]
    /\ msg = [t \in Tasks |-> NoMsg]
    /\ submitted = [t \in Tasks |-> "no"]
    /\ rpc = [t \in Tasks |-> NoRpc]
    /\ wait = [t \in Tasks |-> NoWait]
    /\ result = [t \in Tasks |-> NoResult]

ServiceInit ==
    /\ wallet = FALSE
    /\ keyPair = FALSE
    /\ walletAddress = ""
    /\ derivations = 0

ChainInit ==
    /\ chainSeqno = 0
    /\ chainTxs = << >>
    /\ mempool = {}
    /\ incoming = 0

\* the service with a wallet mnemonic configured or not
Init ==
    /\ walletMnemonic \in {NoMnemonic, Configured(Mnemonic(12, 0, 0, 0))}
    /\ ServiceInit /\ ChainInit /\ TaskInit
    /\ vaInput = NullAddress
    /\ vaResult = NotValidated
    /\ RestIdle

Next ==
    \/ \E t \in Tasks, r \in SendRequests \cup CallRequests : Call(t, r)
    \/ \E t \in Tasks : initialize(t)
    \/ \E t \in Tasks, ok \in BOOLEAN : DeriveReply(t, ok)
    \/ \E t \in Tasks, ok \in BOOLEAN : RunMethodReply(t, ok)
    \/ \E t \in Tasks, ok \in BOOLEAN : GetSeqnoReply(t, ok)
    \/ \E t \in Tasks, ok \in BOOLEAN : SendTransferReply(t, ok)
    \/ \E t \in Tasks, ok \in BOOLEAN : PollSeqno(t, ok)
    \/ \E t \in Tasks, ok \in BOOLEAN, indexed \in BOOLEAN : PollTransactions(t, ok, indexed)
    \/ \E m \in mempool : ChainAccept(m)
    \/ ChainIncoming

Spec == Init /\ [][Next]_vars

\* initialize() alone, over mnemonic strings of every shape
MnemonicInputs ==
    {NoMnemonic} \cup
    {Configured(Mnemonic(n, lead, dbl, trail)) :
        n \in 0..MaxWordsInit, lead \in 0..1, dbl \in 0..1, trail \in 0..1}

InitInitialize ==
    /\ walletMnemonic \in MnemonicInputs
    /\ ServiceInit /\ ChainInit /\ TaskInit
    /\ vaInput = NullAddress
    /\ vaResult = NotValidated
    /\ RestIdle

NextInitialize ==
    \/ \E t \in Tasks : initialize(t)
    \/ \E t \in Tasks, ok \in BOOLEAN : DeriveReply(t, ok)

SpecInitialize == InitInitialize /\ [][NextInitialize]_vars

\* validateAddress alone, over address strings of every shape
RECURSIVE Strings(_)
Strings(n) == IF n = 0 THEN {<< >>}
              ELSE LET shorter == Strings(n - 1) IN
                   shorter \cup {Append(s, c) : s \in {x \in shorter : Len(x) = n - 1}, c \in AddrChars}
AddressInputs == {NullAddress} \cup {AddressString(s) : s \in Strings(MaxAddrLen)}

InitValidate ==
    /\ walletMnemonic = NoMnemonic
    /\ ServiceInit /\ ChainInit /\ TaskInit
    /\ vaInput \in AddressInputs
    /\ vaResult = NotValidated
    /\ RestIdle

NextValidate == ValidateAddress

SpecValidate == InitValidate /\ [][NextValidate]_vars

\* methodToOpcode alone, over method names and caller-supplied opcodes
MethodNames == {
    <<116, 114, 97, 110, 115, 102, 101, 114>>,                      \* 'transfer'
    <<84, 114, 97, 110, 115, 102, 101, 114>>,                       \* 'Transfer'
    <<66, 85, 82, 78>>,                                             \* 'BURN'
    <<100, 101, 112, 108, 111, 121>>,                               \* 'deploy'
    <<115, 101, 113, 110, 111>>,                                    \* 'seqno'
    <<109, 105, 110, 116>>,                                         \* 'mint'
    <<99, 111, 110, 115, 116, 114, 117, 99, 116, 111, 114>>,        \* 'constructor'
    <<95, 95, 112, 114, 111, 116, 111, 95, 95>>,                    \* '__proto__'
    << >>,                                                          \* ''
    <<233>>                                                         \* 'é'
}
CustomOpcodes == {Undefined, Word(0, 0), Word(4660, 22136)}         \* -, 0, 0x12345678

InitOpcode ==
    /\ walletMnemonic = NoMnemonic
    /\ ServiceInit /\ ChainInit /\ TaskInit
    /\ vaInput = NullAddress
    /\ vaResult = NotValidated
    /\ RestIdle

NextOpcode == \E method \in MethodNames, customOpcode \in CustomOpcodes :
                  MethodToOpcode(method, customOpcode)

SpecOpcode == InitOpcode /\ [][NextOpcode]_vars

\* transferJettons' body on an initialized wallet, over its arguments
JettonAddresses ==
    {a \in {AddressString(s) : s \in Strings(FriendlyLen)} :
        AddressParse(a) = "ok" \/ Len(a.text) = 1}
JettonAmounts == {<<"1">>, <<"2">>, <<"0", ".", "5">>, <<"0", ".", "0", "1">>, <<"0">>,
                  <<"x">>, << >>}
ClockValues == 1..MaxClock

InitJetton ==
    /\ walletMnemonic = Configured(Mnemonic(12, 0, 0, 0))
    /\ wallet = TRUE
    /\ keyPair = TRUE
    /\ walletAddress = "address"
    /\ derivations = 1
    /\ ChainInit /\ TaskInit
    /\ vaInput = NullAddress
    /\ vaResult = NotValidated
    /\ RestIdle

NextJetton ==
    \E toAddress \in JettonAddresses, amount \in JettonAmounts,
       forwardAmount \in JettonAmounts, now \in ClockValues :
        TransferJettonsBody(toAddress, amount, forwardAmount, now)

SpecJetton == InitJetton /\ [][NextJetton]_vars

\* parseJettonMetadata and getJettonInfo alone, over content cells
Entry1(key, cells) == {{}} \cup {{<<sha256ToBigInt(key), c>>} : c \in cells}
NameCells == {Cell(<<0, 84, 79, 78>>, << >>),             \* snake 'TON'
              Cell(<< >>, << >>)}                          \* a cell of 0 bits
SymbolCells == {Cell(<<0, 84>>, << >>)}                    \* snake 'T'
DecimalsCells == {
    Cell(<<0, 48>>, << >>),                                \* snake '0'
    Cell(<<0, 54>>, << >>),                                \* snake '6'
    Cell(<<0, 57>>, << >>),                                \* snake '9'
    Cell(<<0, 49, 56>>, << >>),                            \* snake '18'
    Cell(<<49, 56>>, << >>),                               \* '18' without a prefix byte
    Cell(<<0, 49>>, <<Cell(<<56>>, << >>)>>),              \* snake '1' continued by '8'
    Cell(<<0, 120>>, << >>),                               \* snake 'x'
    Cell(<<0>>, << >>),                                    \* snake ''
    Cell(<< >>, << >>)                                     \* a cell of 0 bits
}
OnChainContents ==
    {[bytes |-> <<0>>, refs |-> << >>,
      dict |-> [state |-> "ok", entries |-> n \cup s \cup d]] :
        n \in Entry1("name", NameCells), s \in Entry1("symbol", SymbolCells),
        d \in Entry1("decimals", DecimalsCells)}
OtherContents ==
    {[bytes |-> b, refs |-> << >>, dict |-> [state |-> st, entries |-> {}]] :
        b \in {<< >>, <<0>>, <<1, 104>>, <<2>>, <<255, 0>>}, st \in {"none", "malformed"}}
ContentCells == OnChainContents \cup OtherContents

InitMetadata ==
    /\ walletMnemonic = NoMnemonic
    /\ ServiceInit /\ ChainInit /\ TaskInit
    /\ vaInput = NullAddress
    /\ vaResult = NotValidated
    /\ NotMdIdle
    /\ mdContent \in ContentCells
    /\ mdParsed = NotParsed
    /\ mdInfo = NotParsed

NextMetadata ==
    \/ ParseJettonMetadata
    \/ \E ok \in BOOLEAN : GetJettonInfo(ok)

SpecMetadata == InitMetadata /\ [][NextMetadata]_vars

\* parseSnakeData alone, over chains of cells
SnakeAlphabet == {0, 97, 195, 169}                         \* NUL, 'a', the bytes of 'é'
RECURSIVE ByteStrings(_)
ByteStrings(n) ==
    IF n = 0 THEN {<< >>}
    ELSE LET shorter == ByteStrings(n - 1) IN
         shorter \cup {Append(s, b) : s \in {x \in shorter : Len(x) = n - 1},
                                      b \in SnakeAlphabet}
RECURSIVE CellChains(_)
CellChains(k) ==
    IF k = 1 THEN {Cell(b, << >>) : b \in ByteStrings(MaxCellBytes)}
    ELSE CellChains(k - 1)
         \cup {Cell(b, <<c>>) : b \in ByteStrings(MaxCellBytes), c \in CellChains(k - 1)}

InitSnake ==
    /\ walletMnemonic = NoMnemonic
    /\ ServiceInit /\ ChainInit /\ TaskInit
    /\ vaInput = NullAddress
    /\ vaResult = NotValidated
    /\ NotSnIdle
    /\ snCell \in CellChains(MaxSnakeCells)
    /\ snResult = NoSnake

NextSnake == ParseSnakeData

SpecSnake == InitSnake /\ [][NextSnake]_vars

\* estimateGas alone, over pairs of messages
BitLengths == {1, 1000, 1001}
RECURSIVE TreesOfSize(_)
RECURSIVE ForestsOfSize(_)
TreesOfSize(n) ==
    IF n < 1 THEN {}
    ELSE {BitCell(b, f) : b \in BitLengths, f \in ForestsOfSize(n - 1)}
ForestsOfSize(n) ==
    IF n = 0 THEN {<< >>}
    ELSE UNION {{<<t>> \o f : t \in TreesOfSize(k), f \in ForestsOfSize(n - k)} : k \in 1..n}
Messages == UNION {TreesOfSize(n) : n \in 1..MaxGasCells}

InitGas ==
    /\ walletMnemonic = NoMnemonic
    /\ ServiceInit /\ ChainInit /\ TaskInit
    /\ vaInput = NullAddress
    /\ vaResult = NotValidated
    /\ NotGasIdle
    /\ gasMessage \in [{"m1", "m2"} -> Messages]
    /\ gasEstimate = [w \in {"none", "m1", "m2"} |-> NotEstimated]

NextGas == \E which \in {"none", "m1", "m2"} : EstimateGas(which)

SpecGas == InitGas /\ [][NextGas]_vars

\* the Mini App server alone, over requests with and without init data
InitDataEntries == <<<<"user", "alice">>, <<"auth_date", "1700000000">>>>
SignedBy(params, secret) == params \o <<<<"hash", signature(params, secret)>>>>
InitDataHeaders ==
    {NoHeader,
     InitDataHeader(<< >>),
     InitDataHeader(SignedBy(InitDataEntries, ConfigSecret)),
     InitDataHeader(<<<<"hash", signature(InitDataEntries, ConfigSecret)>>>> \o InitDataEntries),
     InitDataHeader(SignedBy(InitDataEntries, "other-token")),
     InitDataHeader(<<<<"user", "mallory">>, <<"auth_date", "1700000000">>,
                      <<"hash", signature(InitDataEntries, ConfigSecret)>>>>),
     InitDataHeader(InitDataEntries)}
SendAddresses ==
    {NullAddress, AddressString(<< >>), AddressString(<<"A", "A", "A", "A">>),
     AddressString(<<"A", "!">>)}
SendAmounts == {NoAmount, AmountString(""), AmountString("1.5")}
HttpRequests ==
    {HttpRequest(m, p, h, a, n) :
        m \in {"POST"}, p \in {"/api/send"}, h \in InitDataHeaders,
        a \in SendAddresses, n \in SendAmounts}
    \cup {HttpRequest(m, p, h, NullAddress, NoAmount) :
        m \in {"GET", "OPTIONS"}, p \in {"/api/send", "/api/balance"}, h \in InitDataHeaders}

InitMiniApp ==
    /\ walletMnemonic = NoMnemonic
    /\ ServiceInit /\ ChainInit /\ TaskInit
    /\ vaInput = NullAddress
    /\ vaResult = NotValidated
    /\ NotAppIdle
    /\ AppIdle

NextMiniApp ==
    \/ \E request \in HttpRequests : AppReceive(request)
    \/ AppCors
    \/ AppAuth
    \/ \E sent \in BOOLEAN : AppPostSend(sent)
    \/ \E ok \in BOOLEAN : AppGetBalance(ok)
    \/ AppNotFound

SpecMiniApp == InitMiniApp /\ [][NextMiniApp]_vars

\* the demo chat server alone
ChatWords ==
    {"balance", "send", "ton", "confirm", "CONFIRM", "cancel", "stake", "swap",
     "usdt"} \cup NumberWords
ChatMessages ==
    {<< >>} \cup {<<a>> : a \in ChatWords} \cup {<<a, b>> : a, b \in ChatWords}
    \cup {<<"send", "2", "ton">>, <<"swap", "ton", "usdt">>, <<"swap", "2", "ton", "usdt">>,
          <<"cancel", "send", "1", "ton">>, <<"2", "stake", "1">>}
ClientBalances == {NoBalance, ClientBalance(9000)}

InitChat ==
    /\ walletMnemonic = NoMnemonic
    /\ ServiceInit /\ ChainInit /\ TaskInit
    /\ vaInput = NullAddress
    /\ vaResult = NotValidated
    /\ NotChatIdle
    /\ ChatIdle

NextChat == \E message \in ChatMessages, currentBalance \in ClientBalances :
                PostChat(message, currentBalance)

SpecChat == InitChat /\ [][NextChat]_vars

\* the rate limiter alone
LimiterConfigs == {BotConfig({}, {}, m) : m \in 1..MaxQuota}
InitLimiter ==
    /\ walletMnemonic = NoMnemonic
    /\ ServiceInit /\ ChainInit /\ TaskInit
    /\ vaInput = NullAddress
    /\ vaResult = NotValidated
    /\ NotBotIdle
    /\ botConfig \in LimiterConfigs
    /\ botNow = 0
    /\ limits = [u \in BotUsers |-> NoEntry]
    /\ limWindow = [u \in BotUsers |-> NoWindow]
    /\ limLast = NoCall
    /\ botUpdate = NoUpdate
    /\ botStage = "idle"
    /\ botLast = NoOutcome
    /\ botHandled = {}

NextLimiter ==
    \/ \E userId \in BotUsers : CheckLimit(userId)
    \/ \E userId \in BotUsers : Reset(userId)
    \/ ClockTick

SpecLimiter == InitLimiter /\ [][NextLimiter]_vars

\* the bot within one window of the rate limiter: updates from an allowed
\* user, an administrator, a stranger, and channel posts, which have no
\* sender
TgUpdates ==
    {TgUpdate("message", from, text) : from \in BotUsers, text \in {"/send", "hello"}}
    \cup {TgUpdate("channel_post", NoSender, "/send")}
BotConfigs ==
    {BotConfig(a, d, m) : a \in {{}, {"alice"}}, d \in {{}, {"bob"}}, m \in 1..MaxQuota}
InitBot ==
    /\ walletMnemonic = NoMnemonic
    /\ ServiceInit /\ ChainInit /\ TaskInit
    /\ vaInput = NullAddress
    /\ vaResult = NotValidated
    /\ NotBotIdle
    /\ botConfig \in BotConfigs
    /\ botNow = 0
    /\ limits = [u \in BotUsers |-> NoEntry]
    /\ limWindow = [u \in BotUsers |-> NoWindow]
    /\ limLast = NoCall
    /\ botUpdate = NoUpdate
    /\ botStage = "idle"
    /\ botLast = NoOutcome
    /\ botHandled = {}

NextBot ==
    \/ \E update \in TgUpdates : BotReceive(update)
    \/ BotMiddleware
    \/ BotHandlers

SpecBot == InitBot /\ [][NextBot]_vars

\* the cache alone, with and without Redis (config.useRedis)
InitCache ==
    /\ walletMnemonic = NoMnemonic
    /\ ServiceInit /\ ChainInit /\ TaskInit
    /\ vaInput = NullAddress
    /\ vaResult = NotValidated
    /\ NotCacheIdle
    /\ redisClient \in BOOLEAN
    /\ redisStore = EmptyStore
    /\ nodeCache = EmptyStore
    /\ cacheDeleted = {}
    /\ cacheLast = NoCacheCall

NextCache ==
    \/ \E key \in CacheKeys, redisFails \in BOOLEAN : CacheGet(key, redisFails)
    \/ \E key \in CacheKeys, value \in CacheValues, redisFails \in BOOLEAN :
           CacheSet(key, value, redisFails)
    \/ \E key \in CacheKeys, redisFails \in BOOLEAN : CacheDel(key, redisFails)
    \/ \E redisFails \in BOOLEAN : CacheClear(redisFails)
    \/ RedisError

SpecCache == InitCache /\ [][NextCache]_vars

\* buildMethodCallBody and the query ids of one service instance
McParams ==
    {Typed("uint", 5, 0, << >>, FALSE), Typed("uint", 300, 8, << >>, FALSE),
     Typed("int", -1, 0, << >>, FALSE),
     Typed("coins", 0, 0, <<"1", ".", "5">>, FALSE), Typed("coins", 0, 0, <<"x">>, FALSE),
     Typed("address", 0, 0, ValidAddressText, FALSE),
     Typed("address", 0, 0, <<"A", "A", "A", "B">>, FALSE),
     Typed("bool", 0, 0, << >>, TRUE), Typed("cell", 1, 0, << >>, FALSE),
     Typed("slice", 1, 0, << >>, FALSE), Typed("opcode", 7, 0, << >>, FALSE),
     Typed("string", 0, 0, <<"a", "b">>, FALSE),
     Legacy("number", 7, << >>, FALSE), Legacy("number", -1, << >>, FALSE),
     Legacy("bigint", 9, << >>, FALSE),
     Legacy("string", 0, ValidAddressText, FALSE), Legacy("string", 0, <<"2">>, FALSE),
     Legacy("string", 0, <<"1", ".", "5">>, FALSE), Legacy("string", 0, <<"a", "b">>, FALSE),
     Legacy("string", 0, <<"a", ".", "b">>, FALSE),
     Legacy("boolean", 0, << >>, TRUE), Legacy("null", 0, << >>, FALSE)}
Repeat(p, n) == [i \in 1..n |-> p]
McParamLists ==
    {<< >>} \cup {<<p>> : p \in McParams} \cup
    {Repeat(Typed("address", 0, 0, ValidAddressText, FALSE), n) : n \in 3..4} \cup
    {Repeat(Typed("cell", 1, 0, << >>, FALSE), n) : n \in 4..5} \cup
    {Repeat(Legacy("string", 0, ValidAddressText, FALSE), 3)
        \o <<Legacy("string", 0, Repeat("x", n), FALSE)>> : n \in 15..16} \cup
    {<<Typed("string", 0, 0, <<"a", "b">>, FALSE), Legacy("number", 7, << >>, FALSE)>>,
     <<Legacy("number", 7, << >>, FALSE), Typed("coins", 0, 0, <<"x">>, FALSE),
       Typed("bool", 0, 0, << >>, TRUE)>>}
McAmounts == {<< >>, <<"1">>, <<"x">>}

InitMethodCall ==
    /\ walletMnemonic = Configured(Mnemonic(12, 0, 0, 0))
    /\ wallet = TRUE
    /\ keyPair = TRUE
    /\ walletAddress = "address"
    /\ derivations = 1
    /\ ChainInit /\ TaskInit
    /\ vaInput = NullAddress
    /\ vaResult = NotValidated
    /\ NotMcIdle
    /\ mcNow = 1
    /\ mcLog = << >>
    /\ mcCall = NoMethodCall

NextMethodCall ==
    \/ \E params \in McParamLists, amount \in McAmounts : CallContractMethodBody(params, amount)
    \/ TransferJettonsQueryId
    \/ McTick

SpecMethodCall == InitMethodCall /\ [][NextMethodCall]_vars

\* the conversation store alone, after connect() succeeded or failed
Msgs(n) == [i \in 1..n |-> i]
ConvInputs == {Conversation(Msgs(n), la) : n \in {1, 51}, la \in 0..MaxConvTime}

InitConv ==
    /\ walletMnemonic = NoMnemonic
    /\ ServiceInit /\ ChainInit /\ TaskInit
    /\ vaInput = NullAddress
    /\ vaResult = NotValidated
    /\ NotConvIdle
    /\ convRedis \in BOOLEAN
    /\ redisConv = [u \in ConvUsers |-> NoKey]
    /\ conversations = [u \in ConvUsers |-> NoConversation]
    /\ convNow = 0
    /\ convSaved = [u \in ConvUsers |-> NoSave]
    /\ convLast = NoConvCall

NextConv ==
    \/ \E userId \in ConvUsers, redisFails \in BOOLEAN : GetConversation(userId, redisFails)
    \/ \E userId \in ConvUsers, c \in ConvInputs, redisFails \in BOOLEAN :
           SaveConversation(userId, c, redisFails)
    \/ \E userId \in ConvUsers, redisFails \in BOOLEAN : ClearConversation(userId, redisFails)
    \/ ConvTick

SpecConv == InitConv /\ [][NextConv]_vars

\* ================================================================ claims
Done(t) == pc[t] = "done"
IsSend(t) == req[t].kind \in SendKinds
\* the words of the claims about callContractMethod's arguments
NoAmountNoParams(r) == r.amount = "absent" /\ r.params \in {"absent", "empty"}
WithAmountOrParams(r) == r.amount = "0.1" \/ r.params = "some"
\* the task is inside "read seqno -> sign -> submit"
InSection(t) == pc[t] \in {"getSeqno", "sendTransfer"}

\* C1: the read-seqno/sign/submit sections of two concurrently running
\* state-changing operations never interleave, and no two messages whose
\* submission is under way were signed with the same sequence number.
C1_SendsSerialized ==
    \A t1, t2 \in Tasks :
        t1 # t2 =>
            /\ ~(InSection(t1) /\ InSection(t2))
            /\ (pc[t1] = "sendTransfer" /\ pc[t2] = "sendTransfer"
                    => msg[t1].seqno # msg[t2].seqno)

\* C2 (as claimed): every finished run of waitForTransaction ended by
\* returning a hash or by raising the timeout error.
C2_HashOrTimeoutOnly ==
    \A t \in Tasks :
        (Done(t) /\ wait[t].started) => wait[t].outcome \in {"hash", "timeout"}

\* C2 (amended): a finished run of waitForTransaction returned a real
\* transaction hash, raised the timeout error, or propagated the error of
\* one of its own RPC requests that failed; it never returned without a hash.
C2_NoPartialSuccess ==
    \A t \in Tasks :
        (Done(t) /\ wait[t].started) =>
            /\ wait[t].outcome \in {"hash", "timeout", "error"}
            /\ wait[t].outcome = "hash" =>
                    (result[t].success /\ result[t].hash # NoHash)
            /\ wait[t].outcome = "timeout" =>
                    (~result[t].success /\ result[t].err = ErrNotConfirmed)
            /\ wait[t].outcome = "error" =>
                    (wait[t].rpcFailed /\ ~result[t].success /\ result[t].err = ErrRpc)

C2_Witness ==
    \E t \in Tasks : Done(t) /\ wait[t].started /\ wait[t].outcome = "hash"

\* C3: once a poll has fetched a sequence number greater than the submitted
\* one (and no RPC request failed), the poller is fetching the transactions
\* of that same poll or has returned a hash; it does not poll again.
C3_ConfirmedInSamePoll ==
    \A t \in Tasks :
        (wait[t].advanced /\ ~wait[t].rpcFailed) =>
            \/ pc[t] = "getTransactions"
            \/ Done(t) /\ wait[t].outcome = "hash"

\* C4 (as claimed): a finished poller that never saw the sequence number
\* advance made exactly maxAttempts polls and raised the timeout error.
C4_ExactlyMaxAttemptsPolls ==
    \A t \in Tasks :
        (Done(t) /\ wait[t].started /\ ~wait[t].advanced) =>
            (wait[t].polls = MaxAttempts /\ wait[t].outcome = "timeout")

\* C4 (amended): the poller never makes more than maxAttempts polls; when
\* it never saw the sequence number advance and none of its fetches failed
\* it made exactly maxAttempts polls and raised the timeout error; a
\* failing fetch ends it at that poll.
C4_BoundedPolls ==
    \A t \in Tasks :
        /\ wait[t].polls <= MaxAttempts
        /\ attempt[t] <= MaxAttempts
        /\ wait[t].outcome = "timeout" => wait[t].polls = MaxAttempts
        /\ (Done(t) /\ wait[t].started /\ ~wait[t].advanced /\ ~wait[t].rpcFailed) =>
                /\ wait[t].polls = MaxAttempts
                /\ wait[t].outcome = "timeout"
                /\ result[t].err = ErrNotConfirmed

C4_Witness ==
    \E t \in Tasks :
        /\ Done(t) /\ wait[t].started /\ ~wait[t].advanced
        /\ wait[t].outcome = "timeout" /\ wait[t].polls = MaxAttempts

\* C5: the hash a send operation returns is the hash of the transaction
\* made from the message that this call signed and submitted.
C5_OwnHash ==
    \A t \in Tasks :
        (Done(t) /\ IsSend(t) /\ result[t].success /\ wait[t].started) =>
            result[t].hash = msg[t].id

\* C6 (as claimed): a state-changing operation started on an uninitialized
\* wallet fails with a 'Wallet not initialized' error and issues no RPC.
C6_NotInitializedError ==
    \A t \in Tasks :
        (Done(t) /\ IsSend(t) /\ ~readyAtCall[t]
            /\ (req[t].kind = "callContractMethod" => WithAmountOrParams(req[t]))) =>
            /\ ContainsWalletNotInit(result[t].err)
            /\ rpc[t] = NoRpc

\* C6 (amended): such an operation fails without any RPC request, nothing
\* is signed or submitted; the error is 'Wallet not initialized' (thrown,
\* or returned as success=false by callContractMethod), except that
\* callContractMethod with an unparsable address returns the parser's error.
C6_NotInitializedNoRpc ==
    \A t \in Tasks :
        (IsSend(t) /\ ~readyAtCall[t]
            /\ (req[t].kind = "callContractMethod" => WithAmountOrParams(req[t]))) =>
            /\ Done(t)
            /\ rpc[t] = NoRpc /\ msg[t] = NoMsg /\ submitted[t] = "no" /\ ~wait[t].started
            /\ req[t].kind # "callContractMethod" => result[t] = Thrown(ErrWalletNotInit)
            /\ (req[t].kind = "callContractMethod" /\ req[t].addrOk) =>
                    result[t] = Failure(ErrWalletNotInitCall)
            /\ (req[t].kind = "callContractMethod" /\ ~req[t].addrOk) =>
                    result[t] = Failure(ErrParse)

C6_Witness ==
    \E t1, t2 \in Tasks :
        /\ Done(t1) /\ ~readyAtCall[t1] /\ req[t1].kind = "deployContract"
        /\ Done(t2) /\ ~readyAtCall[t2] /\ req[t2].kind = "callContractMethod"
        /\ WithAmountOrParams(req[t2]) /\ req[t2].addrOk

\* C7 (as claimed): callContractMethod with no amount and no params never
\* reads the sequence number, signs, submits or polls, performs exactly one
\* runMethod and returns its decoded stack.
C7_ReadOnlyOneRunMethod ==
    \A t \in Tasks :
        (req[t].kind = "callContractMethod" /\ NoAmountNoParams(req[t])) =>
            /\ rpc[t].getSeqno = 0 /\ rpc[t].sendTransfer = 0
            /\ msg[t] = NoMsg /\ ~wait[t].started
            /\ Done(t) => (rpc[t].runMethod = 1 /\ result[t] = StackResult)

\* C7 (amended): such a call never reads the sequence number, signs,
\* submits or polls, in every wallet state; when the address parses it
\* performs exactly one runMethod and returns its decoded stack, or
\* success=false with the error if that request fails; when the address
\* does not parse it performs no RPC request and returns success=false.
C7_ReadOnlyPath ==
    \A t \in Tasks :
        (req[t].kind = "callContractMethod" /\ NoAmountNoParams(req[t])) =>
            /\ rpc[t].getSeqno = 0 /\ rpc[t].sendTransfer = 0
            /\ rpc[t].getTransactions = 0
            /\ msg[t] = NoMsg /\ submitted[t] = "no" /\ ~wait[t].started
            /\ (Done(t) /\ req[t].addrOk) =>
                    /\ rpc[t].runMethod = 1
                    /\ result[t] \in {StackResult, Failure(ErrRpc)}
            /\ (Done(t) /\ ~req[t].addrOk) =>
                    (rpc[t] = NoRpc /\ result[t] = Failure(ErrParse))

C7_Witness ==
    \E t1, t2 \in Tasks :
        /\ req[t1].kind = "callContractMethod" /\ NoAmountNoParams(req[t1])
        /\ Done(t1) /\ ~readyAtCall[t1] /\ result[t1] = StackResult
        /\ req[t2].kind = "callContractMethod" /\ NoAmountNoParams(req[t2])
        /\ Done(t2) /\ readyAtCall[t2] /\ result[t2] = StackResult
        /\ req[t2].params = "empty"

\* C8: with a configured mnemonic whose word count is not 12, 15, 18, 21
\* or 24, mnemonicToPrivateKey is never invoked and initialize() raises
\* the invalid-mnemonic error.
C8_InvalidCountNeverDerived ==
    (~MnemonicMissing(walletMnemonic)
        /\ WordCount(walletMnemonic.text) \notin validWordCounts) =>
        /\ derivations = 0
        /\ \A t \in Tasks :
              (Done(t) /\ req[t].kind = "initialize") =>
                  result[t] = Thrown(ErrInvalidMnemonic)

\* C9: a send operation gives its caller the timeout error exactly when
\* its message was submitted and the poller ran out of attempts; a
\* rejected submission gives a different error.
C9_TimeoutDistinctFromSubmitFailure ==
    \A t \in Tasks :
        (Done(t) /\ IsSend(t)) =>
            /\ (result[t].err = ErrNotConfirmed) <=> (wait[t].outcome = "timeout")
            /\ wait[t].outcome = "timeout" => (submitted[t] = "yes" /\ ~result[t].success)
            /\ submitted[t] = "failed" =>
                    /\ ~result[t].success
                    /\ result[t].err = ErrRpc
                    /\ result[t].err # ErrNotConfirmed
                    /\ ~wait[t].started

C9_Witness ==
    \E t1, t2 \in Tasks :
        /\ Done(t1) /\ IsSend(t1) /\ wait[t1].outcome = "timeout"
        /\ Done(t2) /\ IsSend(t2) /\ submitted[t2] = "failed"

\* C10: validateAddress always resolves, never rejects, and resolves to
\* true exactly when Address.parse accepts the argument.
C10_ValidateNeverThrows ==
    vaResult # NotValidated =>
        /\ vaResult.settled = "resolved"
        /\ vaResult.value <=> (AddressParse(vaInput) = "ok")

C10_Witness ==
    /\ vaResult # NotValidated
    /\ vaInput.isNull
    /\ vaResult.value = FALSE

\* ------------------------------------------------------- opcodes (C11, C12)
\* the words of the claims about opcodes
OpEntries == {opLog[i] : i \in 1..Len(opLog)}
Overridden(e) == e.customOpcode # Undefined
InTable(name) == \E e \in STANDARD_OPCODES : e[1] = toLowerCase(name)
TableValue(name) == (CHOOSE e \in STANDARD_OPCODES : e[1] = toLowerCase(name))[2]
\* the UTF-8 bytes of a string of the Basic Multilingual Plane
RECURSIVE Utf8(_)
Utf8(str) ==
    IF str = << >> THEN << >>
    ELSE LET c == Head(str) IN
         (IF c < 128 THEN <<c>>
          ELSE IF c < 2048 THEN <<192 + (c \div 64), 128 + (c % 64)>>
          ELSE <<224 + (c \div 4096), 128 + ((c \div 64) % 64), 128 + (c % 64)>>)
         \o Utf8(Tail(str))
\* CRC-32 (reflected polynomial 0xEDB88320) of a byte string, bit by bit
RECURSIVE Crc32Bytes(_, _)
Crc32Bytes(bytes, crc) ==
    IF bytes = << >> THEN crc
    ELSE Crc32Bytes(Tail(bytes), crcShift(Xor(crc, Word(0, Head(bytes))), 0))
Crc32OfName(str) ==
    ToUint32(Xor(Crc32Bytes(Utf8(str), Word(65535, 65535)), Word(65535, 65535)))
IsUint32(v) == v.kind = "number" /\ ~v.neg /\ v.hi \in 0..65535 /\ v.lo \in 0..65535

\* C11 (as claimed): the standard table is consulted before the caller's
\* override: a method of the standard table gets the table's opcode whether
\* or not a customOpcode is supplied, and the override is used only for a
\* method that is not in the table.
C11_TableBeforeOverride ==
    \A e \in OpEntries :
        /\ InTable(e.method) => e.value = TableValue(e.method)
        /\ (~InTable(e.method) /\ Overridden(e)) => e.value = e.customOpcode

\* C11 (amended): the caller's override is consulted before the standard
\* table: a supplied customOpcode is the opcode whatever the method name,
\* also for a method of the standard table; without an override a method
\* whose lower-cased name is in the table gets the table's opcode.
C11_OverrideBeforeTable ==
    \A e \in OpEntries :
        /\ Overridden(e) => e.value = e.customOpcode
        /\ (~Overridden(e) /\ InTable(e.method)) => e.value = TableValue(e.method)

C11_Witness ==
    \E e \in OpEntries :
        /\ Overridden(e) /\ InTable(e.method)
        /\ e.value = e.customOpcode
        /\ e.value # TableValue(e.method)

\* C12: without an override the opcode is a function of the method name
\* alone (the same in every call, whether or not the CRC table was already
\* memoized), it is an unsigned integer below 2^32, 'transfer' gives
\* 0xf8a7ea5, and a name that is not in the standard table gives the CRC-32
\* of the name.
C12_OpcodeIsCrc32OfName ==
    \A e \in OpEntries :
        ~Overridden(e) =>
            /\ IsUint32(e.value)
            /\ \A f \in OpEntries :
                   (~Overridden(f) /\ f.method = e.method) => f.value = e.value
            /\ e.method = <<116, 114, 97, 110, 115, 102, 101, 114>> =>
                   e.value = Word(3978, 32421)
            /\ ~InTable(e.method) => e.value = Crc32OfName(e.method)

\* ------------------------------------------------ jetton transfer body (C13)
\* C13: the body that transferJettons builds holds exactly these fields in
\* this order: the opcode 0xf8a7ea5 in 32 bits, the query id in 64 bits, the
\* amount as coins, the destination address, the sending wallet's address as
\* response destination, a 0 bit, the forward amount as coins, a 0 bit.
C13_TransferBodyLayout ==
    jtBody.built =>
        LET f == jtBody.fields IN
        /\ Len(f) = 8
        /\ f[1].type = "uint" /\ f[1].bits = 32 /\ f[1].value = Word(3978, 32421)
        /\ f[2].type = "uint" /\ f[2].bits = 64 /\ f[2].value = jtNow
        /\ f[3].type = "coins" /\ f[3].value = toNano(jtArgs.amount).value
        /\ f[4].type = "address" /\ f[4].value = jtArgs.toAddress
        /\ f[5].type = "address" /\ f[5].value = WalletContractAddress
        /\ f[6].type = "bit" /\ f[6].value = FALSE
        /\ f[7].type = "coins" /\ f[7].value = toNano(jtArgs.forwardAmount).value
        /\ f[8].type = "bit" /\ f[8].value = FALSE

C13_Witness ==
    /\ jtBody.built
    /\ jtArgs.amount = <<"0", ".", "5">>
    /\ jtBody.fields[3].value = 500000000
    /\ jtArgs.forwardAmount = <<"0", ".", "0", "1">>
    /\ jtBody.fields[7].value = 10000000
    /\ jtBody.fields[3].bits = 36

\* ---------------------------------------------- metadata (C14, C15, C16)
\* the words of the claims about metadata
DefaultMetadata == Metadata(Unknown, UNKNOWN, Num(9))
OtherPrefix(c) == c.bytes # << >> /\ Head(c.bytes) \notin {0, 1}
ShortCell(c) == c.bytes = << >>
OnChain(c) == c.bytes # << >> /\ Head(c.bytes) = 0
ParseFails(c) ==
    \/ ShortCell(c)
    \/ OnChain(c) /\ c.dict.state # "ok"
    \/ OnChain(c) /\ \E en \in c.dict.entries : ShortCell(en[2])
RECURSIVE DecimalString(_)
DecimalString(d) ==
    IF d < 10 THEN <<48 + d>> ELSE DecimalString(d \div 10) \o <<48 + (d % 10)>>
\* on-chain metadata that parses, with the decimals attribute holding d
OnChainWithDecimals(c, d) ==
    /\ OnChain(c) /\ ~ParseFails(c)
    /\ \E en \in c.dict.entries :
           /\ en[1] = <<"sha256", "decimals">>
           /\ en[2] = Cell(<<0>> \o DecimalString(d), << >>)
MaxDecimals == 18

\* C14: parseJettonMetadata never raises; for a content cell whose prefix
\* byte is neither 0x00 nor 0x01, and for a cell on which parsing fails
\* (fewer than 8 bits, a malformed dictionary), it returns name 'Unknown',
\* symbol 'UNKNOWN' and decimals 9.
C14_NeverRaisesDefaults ==
    mdParsed.done =>
        /\ ~mdParsed.value.raised
        /\ (OtherPrefix(mdContent) \/ ParseFails(mdContent)) =>
               mdParsed.value = DefaultMetadata

C14_Witness ==
    /\ mdParsed.done
    /\ OnChain(mdContent) /\ mdContent.dict.state = "malformed"
    /\ mdParsed.value = DefaultMetadata

\* C15: for on-chain metadata whose decimals attribute decodes to the
\* decimal representation of an integer d (d = 0 included), the decimals
\* that parseJettonMetadata reports and the decimals that getJettonInfo
\* reports both equal d.
C15_DecimalsReported ==
    \A d \in 0..MaxDecimals :
        OnChainWithDecimals(mdContent, d) =>
            /\ mdParsed.done => mdParsed.value.decimals = Num(d)
            /\ (mdInfo.done /\ ~mdInfo.value.raised) => mdInfo.value.decimals = Num(d)

\* the words of the claim about snake data
RECURSIVE ChainBytes(_)
ChainBytes(c) == c.bytes \o (IF c.refs = << >> THEN << >> ELSE ChainBytes(c.refs[1]))
RECURSIVE ChainLength(_)
ChainLength(c) == 1 + (IF c.refs = << >> THEN 0 ELSE ChainLength(c.refs[1]))
Payload(root) == Tail(ChainBytes(root))
RECURSIVE NoEmptyCell(_)
NoEmptyCell(c) == c.bytes # << >> /\ (c.refs = << >> \/ NoEmptyCell(c.refs[1]))
\* root is the TEP-64 snake encoding of a string: a 0x00 prefix in the
\* first cell, then the UTF-8 bytes of the string along the chain, every
\* continuation cell holding some of them
IsSnakeEncoding(root) ==
    /\ NoEmptyCell(root) /\ Head(root.bytes) = 0
    /\ Utf8(toStringUtf8(Payload(root))) = Payload(root)

\* C16: parseSnakeData returns exactly the string s for a cell that holds
\* the snake encoding of s over a chain of one or more cells.
C16_SnakeRoundTrip ==
    (snResult.done /\ IsSnakeEncoding(snCell)) =>
        /\ ~snResult.threw
        /\ Utf8(snResult.text) = Payload(snCell)

\* (C16 for a chain of one cell)
C16_OneCell ==
    (snResult.done /\ IsSnakeEncoding(snCell) /\ ChainLength(snCell) = 1) =>
        /\ ~snResult.threw
        /\ Utf8(snResult.text) = Payload(snCell)

\* ------------------------------------------------- gas estimate (C17, C18)
\* the words of the claims about message size
RootBits(m) == m.bits
RECURSIVE CellCount(_)
CellCount(m) ==
    IF m.refs = << >> THEN 1
    ELSE CellCount(m.refs[1]) + CellCount(BitCell(0, Tail(m.refs)))
RECURSIVE TotalBits(_)
TotalBits(m) ==
    IF m.refs = << >> THEN m.bits
    ELSE TotalBits(m.refs[1]) + TotalBits(BitCell(m.bits, Tail(m.refs)))
Estimated(w) == gasEstimate[w] # NotEstimated

C18_EstimateStrictlyGreater ==
    (Estimated("m1") /\ Estimated("m2")
        /\ TotalBits(gasMessage["m2"]) >= TotalBits(gasMessage["m1"])
        /\ CellCount(gasMessage["m2"]) >= CellCount(gasMessage["m1"])
        /\ (TotalBits(gasMessage["m2"]) > TotalBits(gasMessage["m1"])
            \/ CellCount(gasMessage["m2"]) > CellCount(gasMessage["m1"])))
    => gasEstimate["m2"] > gasEstimate["m1"]

\* ------------------------------------------------ Mini App requests (C19)
\* the request carried init data that validates against the bot's secret
Authenticated(request) ==
    /\ request.header.present
    /\ paramsGet(request.header.params, "hash").found
    /\ paramsGet(request.header.params, "hash").value = signature(request.header.params, ConfigSecret)

\* C19: a transaction is sent by POST /api/send only for a request that is
\* authenticated by valid init data: a request without the header, or with
\* init data whose HMAC does not match, never has a transaction sent.
C19_SendOnlyAuthenticated ==
    \A i \in 1..Len(appSent) : Authenticated(appSent[i])

\* what the middleware does keep: init data that is present and does not
\* validate is answered 401 and sends nothing
C19_InvalidInitDataRejected ==
    \A i \in 1..Len(appSent) :
        HeaderTruthy(appSent[i].header) => Authenticated(appSent[i])

\* ------------------------------------------- demo chat confirmations (C20)
\* the words of the claim, over the last request handled
SaysConfirm == \E i \in 1..Len(chatLast.message) : chatLast.message[i] \in {"confirm", "CONFIRM"}
PreparedNow == chatLast.branch \in PreparingBranches
\* the request followed a preparation with no cancellation and no
\* execution in between
FollowsPreparation == chatLast.since = "prepared"
\* the wstate state the request found, with the balance the client sent
Adopted ==
    IF chatLast.currentBalance.defined
    THEN [chatLast.before EXCEPT !.balance = chatLast.currentBalance.value]
    ELSE chatLast.before

Authorized(update) ==
    update.from \in (botConfig.allowedUsers \cup botConfig.adminUsers)

\* C21: when allowedUsers is non-empty, a handler has run only for updates
\* from a user in allowedUsers or in adminUsers, and an update turned away
\* by the authorization check has left the rate limiter as it was.
C21_HandlersOnlyForAuthorized ==
    /\ botConfig.allowedUsers # {} =>
           \A h \in botHandled : Authorized(h.update)
    /\ botLast.outcome = "not authorized" => limits = botLast.before

C21_Witness ==
    /\ botConfig.allowedUsers # {}
    /\ botLast.outcome = "not authorized"
    /\ botLast.update.text = "/send"
    /\ \E h \in botHandled :
           /\ h.handler = "/send"
           /\ h.update.from \in botConfig.adminUsers \ botConfig.allowedUsers
    /\ \E h \in botHandled : h.update.from \in botConfig.allowedUsers

\* ------------------------------------------------- rate limiting (C22)
QuotaUsed(userId) ==
    limWindow[userId].open /\ limWindow[userId].passed >= botConfig.maxRequests

C23_GetAfterDelIsNull ==
    (cacheLast.op = "get" /\ cacheLast.afterDel) => cacheLast.returned = CacheNull

\* C24: in every send operation the sequence number is read before the
\* message is built and signed, the message is submitted before the poller
\* starts, the signed message carries the number read in that same call
\* (one read, none between the read and the submission), and the poller's
\* watermark is exactly that number
C24_SeqnoReadSignedAndWatched ==
    \A t \in Tasks :
        /\ msg[t] # NoMsg => seqno[t] # -1 /\ msg[t].seqno = seqno[t]
        /\ pc[t] = "sendTransfer" => msg[t] # NoMsg /\ rpc[t].getSeqno = 1
        /\ submitted[t] # "no" => msg[t] # NoMsg /\ rpc[t].sendTransfer >= 1
        /\ wait[t].started =>
              /\ submitted[t] = "yes"
              /\ wait[t].watermark = msg[t].seqno
              /\ wait[t].watermark = seqno[t]
\* a send signed with sequence number 1, read after an earlier message was
\* accepted, whose poller has polled
C24_Witness ==
    \E t \in Tasks :
        /\ IsSend(t)
        /\ wait[t].started
        /\ wait[t].polls >= 1
        /\ msg[t].seqno = 1
        /\ wait[t].watermark = 1

\* C25: a send operation submits its signed message at most once, and
\* exactly once whenever its poller has started, whatever the polls show and
\* also after the final timeout
C25_SubmittedExactlyOnce ==
    \A t \in Tasks :
        /\ rpc[t].sendTransfer <= 1
        /\ wait[t].started => rpc[t].sendTransfer = 1
        /\ submitted[t] # "no" => rpc[t].sendTransfer = 1
\* a send whose poller gave up after polls that showed nothing
C25_Witness ==
    \E t \in Tasks :
        /\ IsSend(t)
        /\ Done(t)
        /\ wait[t].outcome = "timeout"
        /\ wait[t].polls >= 2
        /\ rpc[t].sendTransfer = 1

\* what the parameters of a list store, one after the other
RECURSIVE paramFields(_)
paramFields(ps) ==
    IF ps = << >> THEN << >> ELSE encodeParam(Head(ps)).fields \o paramFields(Tail(ps))
ParamRaises(ps) == \E i \in 1..Len(ps) : encodeParam(ps[i]).error # ""
\* opcode and query id, then the parameters
BodyBits(ps) == 32 + 64 + fieldBits(paramFields(ps))
BodyFailed == mcCall # NoMethodCall /\ mcCall.body.error # ""

\* C26: a method-call body that would exceed 1023 bits or 4 references, or
\* that has a parameter whose conversion throws, is not built; when the
\* body is not built, or the amount does not parse, the caller gets that
\* error, nothing is submitted and the poller is not started; a body that is
\* built holds everything its parameters store
C26_EncodingErrorsFailFast ==
    mcCall # NoMethodCall =>
        /\ (\/ ParamRaises(mcCall.params)
            \/ BodyBits(mcCall.params) > 1023
            \/ fieldRefs(paramFields(mcCall.params)) > 4) => mcCall.body.error # ""
        /\ mcCall.body.error # "" =>
              /\ mcCall.result = [success |-> FALSE, error |-> mcCall.body.error]
              /\ ~mcCall.submitted
              /\ ~mcCall.polling
        /\ mcCall.body.error = "" =>
              /\ Len(mcCall.body.fields) = 2 + Len(paramFields(mcCall.params))
              /\ fieldBits(mcCall.body.fields) = BodyBits(mcCall.params)
        /\ mcCall.amount = <<"x">> =>
              /\ ~mcCall.result.success /\ mcCall.result.error # ""
              /\ ~mcCall.submitted
              /\ ~mcCall.polling
\* a call whose parameters need more than 1023 bits
C26_Witness ==
    /\ BodyFailed
    /\ ~ParamRaises(mcCall.params)
    /\ BodyBits(mcCall.params) > 1023
    /\ mcCall.result.error = ErrOverflow
    /\ ~mcCall.submitted

\* C27: of the bodies one service instance builds, a later one carries a
\* larger query id than every earlier one
C27_QueryIdsMonotonicallyUnique ==
    \A i, j \in 1..Len(mcLog) : i < j => mcLog[i].queryId < mcLog[j].queryId

\* the tags buildMethodCallBody documents, and what each stores
TagStores(tag) ==
    CASE tag = "uint" -> "uint" [] tag = "int" -> "int" [] tag = "coins" -> "coins"
      [] tag = "address" -> "address" [] tag = "bool" -> "bit" [] tag = "cell" -> "ref"
      [] tag = "slice" -> "slice" [] OTHER -> "nothing"
IsNumericString(s) ==
    LET d == DotAt(s) IN
    /\ s # << >>
    /\ \A i \in 1..Len(s) : i # d => IsDigit(s[i])
    /\ d = Len(s) + 1 \/ (d > 1 /\ d < Len(s))
\* C28: a tagged parameter is stored as its tag says or raises; an untagged
\* string that is neither an address nor numeric raises nothing and is
\* stored as its bytes; every parameter stores something or raises
C28_EveryParamEncodedOrRaises ==
    mcCall # NoMethodCall =>
        \A i \in 1..Len(mcCall.params) :
            LET p == mcCall.params[i]
                enc == encodeParam(p)
            IN /\ p.js = "object" /\ enc.error = "" /\ enc.fields # << >> =>
                     enc.fields[1].type = TagStores(p.tag)
               /\ (/\ p.js = "string"
                   /\ AddressParse(AddressString(p.str)) # "ok"
                   /\ ~IsNumericString(p.str)) =>
                     enc.error = "" /\ enc.fields[1].type = "buffer"
               /\ enc.error = "" => enc.fields # << >>

\* a state-changing operation that found the wallet or the key pair null
StartedUninitialized(t) ==
    /\ IsSend(t)
    /\ ~readyAtCall[t]
    /\ req[t].kind = "callContractMethod" => WithAmountOrParams(req[t])
\* wallet, keyPair and walletAddress change only in the step in which an
\* initialize() succeeds, which sets all three
OnlyInitializeAssigns ==
    (wallet' # wallet \/ keyPair' # keyPair \/ walletAddress' # walletAddress) =>
        \E t \in Tasks :
            /\ req[t].kind = "initialize"
            /\ pc[t] = "derive"
            /\ result'[t] = Success(NoHash)
            /\ wallet' /\ keyPair' /\ walletAddress' # ""

\* C29 (as claimed): wallet is non-null only if keyPair is; only a
\* successful initialize() changes wallet, keyPair or walletAddress, so a
\* failed one leaves a fresh service with both null; and every
\* state-changing operation that finds them null fails with 'Wallet not
\* initialized'.
C29_WalletStateInvariant ==
    /\ [](wallet => keyPair)
    /\ [][OnlyInitializeAssigns]_vars
    /\ [](\A t \in Tasks :
            (StartedUninitialized(t) /\ Done(t)) => ContainsWalletNotInit(result[t].err))

\* C29 (amended): as above, except that callContractMethod with an
\* unparsable address returns the parser's error, not 'Wallet not
\* initialized'; no operation that finds the wallet null changes it.
C29_WalletOnlyByInitialize ==
    /\ [](wallet => keyPair)
    /\ [](~wallet => ~keyPair /\ walletAddress = "")
    /\ [][OnlyInitializeAssigns]_vars
    /\ [](\A t \in Tasks :
            (StartedUninitialized(t) /\ Done(t)) =>
                IF req[t].kind = "callContractMethod" /\ ~req[t].addrOk
                THEN result[t] = Failure(ErrParse)
                ELSE ContainsWalletNotInit(result[t].err))
\* an initialize() failed in the derivation, the fields are still null and
\* a transfer was refused with 'Wallet not initialized'
C29_Witness ==
    \E t1, t2 \in Tasks :
        /\ req[t1].kind = "initialize" /\ Done(t1) /\ result[t1] = Thrown(ErrDerivation)
        /\ ~wallet /\ ~keyPair /\ walletAddress = ""
        /\ req[t2].kind = "sendTransaction" /\ Done(t2)
        /\ result[t2] = Thrown(ErrWalletNotInit)

\* C30: a getConversation(u) whose read did not fail returns the (at most
\* 50, most recent) messages of the conversation last saved for u, when it
\* comes within the timeout of that save and no clear came in between, and
\* no messages when the last operation on u's conversation was a clear;
\* in memory, with Redis, and with Redis failing on writes
C30_ReadYourWrites ==
    (convLast.op = "get" /\ ~convLast.readFailed) =>
        /\ (convLast.after = "saved" /\ convLast.within) =>
              convLast.returned = trimMessages(convLast.expected, 50)
        /\ convLast.after = "cleared" => convLast.returned = << >>
\* the same, for a save or clear whose write to Redis did not fail: this
\* much the code keeps
C30_ReadYourWritesUnlessWriteFailed ==
    (convLast.op = "get" /\ ~convLast.readFailed /\ ~convLast.afterFailed) =>
        /\ (convLast.after = "saved" /\ convLast.within) =>
              convLast.returned = trimMessages(convLast.expected, 50)
        /\ convLast.after = "cleared" => convLast.returned = << >>
====
